---- MODULE Spec2Model ----
(***************************************************************************)
(* A model of the catalogue mirror service (AppService / AppController):   *)
(* the Prisma store (Category, Product), the category-tree sync and the    *)
(* incremental category crawler getProductsByCategory, step by step at     *)
(* the granularity of its awaits, for several concurrent callers.          *)
(*                                                                         *)
(* Text is modelled as a sequence of tokens (strings): a URL such as       *)
(* ".../collections/fiction-books" is                                      *)
(*   <<"https://www.worldofbooks.com","/","en-gb","/","collections","/",   *)
(*     "fiction","-","books">>                                             *)
(* so that `contains', `startsWith', lower-casing and whitespace removal   *)
(* are computed on the text and not assumed.                               *)
(***************************************************************************)
EXTENDS Integers, Sequences, FiniteSets, TLC

(***************************************************************************)
(* Text helpers (String.prototype.includes / startsWith / toLowerCase /    *)
(* replace(/\s+/g,'')).                                                    *)
(***************************************************************************)

\* s.includes(frag): frag occurs as a contiguous run of s.
Contains(s, frag) ==
    \E i \in 0..(Len(s) - Len(frag)) :
        \A j \in 1..Len(frag) : s[i + j] = frag[j]

\* s.startsWith(prefix)
StartsWith(s, prefix) ==
    /\ Len(prefix) <= Len(s)
    /\ \A j \in 1..Len(prefix) : s[j] = prefix[j]

\* The words of ws joined with "-".
RECURSIVE Dash(_)
Dash(ws) ==
    IF Len(ws) = 0 THEN <<>>
    ELSE IF Len(ws) = 1 THEN <<ws[1]>>
    ELSE <<ws[1], "-">> \o Dash(Tail(ws))

\* One character of toLowerCase(): the upper-case letters the model uses.
LowerChar(c) ==
    CASE c = "B" -> "b"
      [] c = "C" -> "c"
      [] c = "D" -> "d"
      [] c = "E" -> "e"
      [] c = "F" -> "f"
      [] c = "I" -> "i"
      [] c = "N" -> "n"
      [] c = "R" -> "r"
      [] c = "T" -> "t"
      [] OTHER -> c

\* title.toLowerCase()
ToLowerCase(s) == [i \in 1..Len(s) |-> LowerChar(s[i])]

\* price.replace(/\s+/g, '')
RECURSIVE StripWhitespace(_)
StripWhitespace(s) ==
    IF s = <<>> THEN <<>>
    ELSE IF Head(s) = " " THEN StripWhitespace(Tail(s))
    ELSE <<Head(s)>> \o StripWhitespace(Tail(s))

\* String.trim()
RECURSIVE TrimStart(_)
TrimStart(s) == IF s # <<>> /\ Head(s) = " " THEN TrimStart(Tail(s)) ELSE s

RECURSIVE TrimEnd(_)
TrimEnd(s) ==
    IF s # <<>> /\ s[Len(s)] = " " THEN TrimEnd(SubSeq(s, 1, Len(s) - 1)) ELSE s

Trim(s) == TrimEnd(TrimStart(s))

(***************************************************************************)
(* URLs of the site.                                                       *)
(***************************************************************************)
baseUrl == <<"https://www.worldofbooks.com">>

\* 'https://www.worldofbooks.com/en-gb/collections/<words joined by ->'
CollectionUrl(ws) == baseUrl \o <<"/", "en-gb", "/", "collections", "/">> \o Dash(ws)

\* The relative form of the same link, as the live menu writes it.
RelativeHref(ws) == <<"/", "en-gb", "/", "collections", "/">> \o Dash(ws)

(***************************************************************************)
(* SLUG_MAPPING: the slugs the model calls with.  A slug that is not a key *)
(* of the table is used unchanged (SLUG_MAPPING[slug] || slug).            *)
(***************************************************************************)
FictionSlug     == Dash(<<"fiction", "books">>)
NonFictionSlug  == Dash(<<"non", "fiction">>)
RomanceSlug     == <<"romance">>
UnknownSlug     == Dash(<<"no", "such", "shelf">>)          \* not a key

FictionFragment == <<"collections", "/">> \o Dash(<<"fiction", "books">>)

\* The table is an object literal, so SLUG_MAPPING[slug] also finds the
\* members every object inherits (constructor, toString, ...): functions,
\* which are truthy and so win over the "|| slug" default.
InheritedKeys == {<<"constructor">>, <<"toString">>}
InheritedMember(slug) == <<"function">> \o slug

SLUG_MAPPING(slug) ==
    CASE slug = FictionSlug    -> FictionFragment
      [] slug = NonFictionSlug -> <<"collections", "/">> \o Dash(<<"non", "fiction", "books">>)
      [] slug = RomanceSlug    -> <<"collections", "/">> \o Dash(<<"romance", "books">>)
      [] slug \in InheritedKeys -> InheritedMember(slug)
      [] OTHER -> slug

\* The slugs requests arrive with, and those that overlapping requests use.
Slugs == {FictionSlug, NonFictionSlug, RomanceSlug, UnknownSlug}
OverlapSlugs == {RomanceSlug, UnknownSlug}

(***************************************************************************)
(* syncCategories: the menu anchors of the live homepage, their extraction *)
(* in the page, the two-pass categoryMap build, the core seeds and the     *)
(* upserts.                                                                *)
(***************************************************************************)

\* An <a data-menu_category=.. data-menu_subcategory=.. href=..>; "" and <<>>
\* stand for a missing attribute.
Anchor(p, c, h) == [parentName |-> p, childName |-> c, href |-> h]

\* What document.querySelectorAll('a[data-menu_category]') may yield: the site
\* is not under the program's control, so each sync sees one of these menus.
MenuEmpty == <<>>

MenuFiction ==
    << Anchor("Fiction Books", "", RelativeHref(<<"fiction", "books">>)),
       Anchor("Fiction Books", "Fantasy", RelativeHref(<<"fantasy", "fiction", "books">>)),
       Anchor("Non-Fiction Books", "", <<"javascript:", "void(0)">>),
       Anchor("Non-Fiction Books", "History", CollectionUrl(<<"history", "books">>)) >>

MenuTravel ==
    << Anchor("Travel", "Maps", RelativeHref(<<"maps", "books">>)),
       Anchor("Travel", "", <<"en-gb", "/", "collections", "/">> \o Dash(<<"travel", "books">>)),
       Anchor("Travel", "Atlases", RelativeHref(<<"maps", "books">>)),
       Anchor("Non-Fiction Books", "", baseUrl \o <<"/">>),
       Anchor("", "Orphan", RelativeHref(<<"orphan", "books">>)) >>

Menus == {MenuEmpty, MenuFiction, MenuTravel}

\* One anchor through the in-page callback: <<>> when it is dropped, else a
\* one-element list holding the raw link.  The absolute hrefs of the menus
\* above all start with the site's origin, so href.startsWith('http') is
\* StartsWith(href, baseUrl) here.
ExtractAnchor(a) ==
    IF a.parentName = "" \/ a.href = <<>> THEN <<>>
    ELSE
        LET abs == IF StartsWith(a.href, baseUrl) THEN a.href
                   ELSE baseUrl \o (IF StartsWith(a.href, <<"/">>) THEN a.href
                                    ELSE <<"/">> \o a.href)
        IN  IF abs = baseUrl \/ abs = baseUrl \o <<"/">> THEN <<>>
            ELSE IF Contains(abs, <<"javascript:">>) THEN <<>>
            ELSE
                LET url ==
                      CASE a.parentName = "Fiction Books" -> CollectionUrl(<<"fiction", "books">>)
                        [] a.parentName = "Non-Fiction Books" -> CollectionUrl(<<"non", "fiction", "books">>)
                        [] a.parentName = "Children's Books" -> CollectionUrl(<<"childrens", "books">>)
                        [] a.parentName = "Rare Books" -> CollectionUrl(<<"rare", "books">>)
                        [] OTHER -> abs
                IN  << [parentName |-> a.parentName, childName |-> a.childName, url |-> url] >>

\* rawLinks = page.evaluate(...): the anchors in document order.
RECURSIVE ExtractLinks(_)
ExtractLinks(anchors) ==
    IF anchors = <<>> THEN <<>>
    ELSE ExtractAnchor(Head(anchors)) \o ExtractLinks(Tail(anchors))

\* categoryMap is a JS Map: a list of entries in insertion order.
MapHas(map, name) == \E i \in 1..Len(map) : map[i].name = name
MapIndex(map, name) == CHOOSE i \in 1..Len(map) : map[i].name = name

\* First pass: register each parent; a link without childName sets the root url.
\* (variant: the url a parent was registered with is kept)
RECURSIVE RegisterParentsFirstWins(_, _)
RegisterParentsFirstWins(links, map) ==
    IF links = <<>> THEN map
    ELSE
        LET item == Head(links)
        IN  RegisterParentsFirstWins(Tail(links),
                IF MapHas(map, item.parentName) THEN map
                ELSE Append(map, [name |-> item.parentName, url |-> item.url,
                                  children |-> <<>>]))

RECURSIVE RegisterParents(_, _)
RegisterParents(links, map) ==
    IF links = <<>> THEN map
    ELSE
        LET item == Head(links)
            m1 == IF MapHas(map, item.parentName) THEN map
                  ELSE Append(map, [name |-> item.parentName, url |-> item.url, children |-> <<>>])
            m2 == IF item.childName = ""
                  THEN [m1 EXCEPT ![MapIndex(m1, item.parentName)].url = item.url]
                  ELSE m1
        IN  RegisterParents(Tail(links), m2)

\* Second pass: attach the children, one per url within a parent.
RECURSIVE AttachChildren(_, _)
AttachChildren(links, map) ==
    IF links = <<>> THEN map
    ELSE
        LET item == Head(links)
            m1 == IF item.childName # "" /\ MapHas(map, item.parentName)
                  THEN LET i == MapIndex(map, item.parentName)
                       IN  IF \E k \in 1..Len(map[i].children) : map[i].children[k].url = item.url
                           THEN map
                           ELSE [map EXCEPT ![i].children =
                                    Append(@, [title |-> item.childName, url |-> item.url])]
                  ELSE map
        IN  AttachChildren(Tail(links), m1)

coreCategories ==
    << [title |-> "Fantasy", url |-> CollectionUrl(<<"fantasy", "fiction", "books">>)],
       [title |-> "Crime & Mystery", url |-> CollectionUrl(<<"crime", "and", "mystery", "books">>)],
       [title |-> "Modern Fiction", url |-> CollectionUrl(<<"modern", "fiction", "books">>)],
       [title |-> "Romance", url |-> CollectionUrl(<<"romance", "books">>)],
       [title |-> "Thriller & Suspense", url |-> CollectionUrl(<<"thriller", "and", "suspense", "books">>)],
       [title |-> "Biography & True Stories", url |-> CollectionUrl(<<"biography", "and", "true", "story", "books">>)],
       [title |-> "Health & Personal Development", url |-> CollectionUrl(<<"health", "and", "personal", "development", "books">>)],
       [title |-> "Children's Fiction", url |-> CollectionUrl(<<"childrens", "fiction", "books">>)],
       [title |-> "Rare Fiction", url |-> CollectionUrl(<<"rare", "fiction", "books">>)] >>

RECURSIVE SeedCore(_, _)
SeedCore(cores, map) ==
    IF cores = <<>> THEN map
    ELSE LET core == Head(cores)
         IN  SeedCore(Tail(cores),
                      IF MapHas(map, core.title) THEN map
                      ELSE Append(map, [name |-> core.title, url |-> core.url, children |-> <<>>]))

categoryMap(rawLinks) ==
    SeedCore(coreCategories, AttachChildren(rawLinks, RegisterParents(rawLinks, <<>>)))

(***************************************************************************)
(* The Category table: a list of rows, the row at index i has id i         *)
(* (SERIAL); parentId 0 is NULL.  url is unique (Category_url_key).        *)
(***************************************************************************)
CategoryByUrl(cats, url) ==
    IF \E i \in 1..Len(cats) : cats[i].url = url
    THEN CHOOSE i \in 1..Len(cats) : cats[i].url = url
    ELSE 0

\* category.upsert({where: {url}, update: {title}, create: {title, url, lastPage: 0}})
\* (variant: the update also writes lastPage: 0)
UpsertParentResetsPage(cats, title, url) ==
    LET id == CategoryByUrl(cats, url)
    IN  IF id # 0 THEN [cats EXCEPT ![id].title = title, ![id].lastPage = 0]
        ELSE Append(cats, [title |-> title, url |-> url, parentId |-> 0, lastPage |-> 0])

UpsertParent(cats, title, url) ==
    LET id == CategoryByUrl(cats, url)
    IN  IF id # 0 THEN [cats EXCEPT ![id].title = title]
        ELSE Append(cats, [title |-> title, url |-> url, parentId |-> 0, lastPage |-> 0])

\* category.upsert({where: {url}, update: {title, parentId}, create: {..., lastPage: 0}})
UpsertChild(cats, title, url, parentId) ==
    LET id == CategoryByUrl(cats, url)
    IN  IF id # 0 THEN [cats EXCEPT ![id].title = title, ![id].parentId = parentId]
        ELSE Append(cats, [title |-> title, url |-> url, parentId |-> parentId, lastPage |-> 0])

RECURSIVE PersistChildren(_, _, _)
PersistChildren(cats, children, parentId) ==
    IF children = <<>> THEN cats
    ELSE PersistChildren(UpsertChild(cats, Head(children).title, Head(children).url, parentId),
                         Tail(children), parentId)

\* for (const [parentTitle, data] of categoryMap) { upsert parent; upsert children }
RECURSIVE PersistMap(_, _)
PersistMap(cats, map) ==
    IF map = <<>> THEN cats
    ELSE
        LET e == Head(map)
            c1 == UpsertParent(cats, e.name, e.url)
            parentId == CategoryByUrl(c1, e.url)
        IN  PersistMap(PersistChildren(c1, e.children, parentId), Tail(map))

\* The Category table after one syncCategories run.  When page.goto of the
\* homepage rejects, the request handler throws before anything is written and
\* crawler.run() still resolves: the table is left as it was.
syncCategories(cats, navOk, anchors) ==
    IF navOk THEN PersistMap(cats, categoryMap(ExtractLinks(anchors))) ELSE cats

(***************************************************************************)
(* The Product table: a list of rows, the row at index i has id i.  The    *)
(* migrations give Product no unique index besides its primary key.        *)
(***************************************************************************)
ProductsOf(prods, categoryId) ==
    SelectSeq(prods, LAMBDA r : r.categoryId = categoryId)

\* _count.products of a category row
CountProducts(prods, categoryId) == Len(ProductsOf(prods, categoryId))

\* The soft dedup key: `${title.toLowerCase()}|${price.replace(/\s+/g, '')}`
CardKey(item) == <<ToLowerCase(item.title), StripWhitespace(item.price)>>

(***************************************************************************)
(* scrapeCategoryPages: the cards of a listing page as the browser shows   *)
(* them, and what the request handler makes of them.                       *)
(***************************************************************************)
ITEMS_PER_PAGE == 40

\* A card element (the token "GBP" is the pound sign): its rendered size is zero (hidden) or not, the text of its
\* title element, its price text, the text of its author element ("" if none).
Card(hidden, title, price, author) ==
    [hidden |-> hidden, title |-> title, price |-> price, author |-> author]

Digit(n) == <<"0", "1", "2", "3", "4", "5", "6", "7", "8", "9">>[n + 1]

\* The i-th title of a full listing page: "T00", "T01", ...
NumberedTitle(i) == <<"T", Digit((i \div 10) % 10), Digit(i % 10)>>

Dune      == <<"D", "u", "n", "e">>
DuneLower == <<"d", "u", "n", "e">>
Emma      == <<"E", "m", "m", "a">>

\* What a listing URL may show; the empty page is also what a failed
\* navigation or a selector-wait timeout leaves (goto(...).catch, try/catch).
PageEmpty == <<>>

PageSingle == << Card(FALSE, Dune, <<"GBP", "1">>, "Herbert") >>

PageMixed ==
    << Card(FALSE, Dune, <<"GBP", "1">>, "Herbert"),
       Card(FALSE, DuneLower, <<"GBP", " ", "1">>, ""),
       Card(FALSE, <<>>, <<"GBP", "2">>, ""),
       Card(TRUE, Emma, <<"GBP", "3">>, "Austen"),
       Card(FALSE, Emma, <<"GBP", "2">>, "") >>

PageFull ==
    [i \in 1..ITEMS_PER_PAGE |-> Card(FALSE, NumberedTitle(i), <<"GBP", Digit(i % 10)>>, "")]

Pages == {PageEmpty, PageSingle, PageMixed, PageFull}

\* page.evaluate: visible cards with a (trimmed) title and price, in
\* document order.
RECURSIVE scrapedItems(_)
scrapedItems(cards) ==
    IF cards = <<>> THEN <<>>
    ELSE
        LET el == Head(cards)
            item == [title |-> Trim(el.title), price |-> Trim(el.price),
                     author |-> IF el.author = "" THEN "Unknown" ELSE el.author]
        IN  (IF ~el.hidden /\ item.title # <<>> /\ item.price # <<>> THEN <<item>> ELSE <<>>)
            \o scrapedItems(Tail(cards))

\* The seenFinal loop: the first item of each key, in order.
\* (variant: no seenFinal test, every item is kept)
uniqueFinalNoDedup(items, seenFinal) == items

RECURSIVE uniqueFinal(_, _)
uniqueFinal(items, seenFinal) ==
    IF items = <<>> THEN <<>>
    ELSE IF CardKey(Head(items)) \in seenFinal THEN uniqueFinal(Tail(items), seenFinal)
    ELSE <<Head(items)>> \o uniqueFinal(Tail(items), seenFinal \cup {CardKey(Head(items))})

\* crawler.run(urls): the handler runs once per url and pushes its cards;
\* shown[i] is what url i shows.
RECURSIVE scrapeCategoryPages(_, _)
scrapeCategoryPages(urls, shown) ==
    IF urls = <<>> THEN <<>>
    ELSE uniqueFinal(scrapedItems(Head(shown)), {})
         \o scrapeCategoryPages(Tail(urls), Tail(shown))

(***************************************************************************)
(* getProductsByCategory: the pure parts.                                  *)
(***************************************************************************)

\* whereClause applied to one category url
\* (variant: the NOT { url: { contains: 'non-fiction' } } conjunct left out)
whereClauseNoExclusion(searchString, url) ==
    IF searchString = FictionFragment
    THEN Contains(url, Dash(<<"fiction", "books">>))
    ELSE Contains(url, searchString)

whereClause(searchString, url) ==
    IF searchString = FictionFragment
    THEN /\ Contains(url, Dash(<<"fiction", "books">>))
         /\ ~Contains(url, Dash(<<"non", "fiction">>))
    ELSE Contains(url, searchString)

\* The rows category.findFirst({where: whereClause}) may return: the query has
\* no orderBy, so any matching row can come first.
findFirst(cats, slug) ==
    {i \in 1..Len(cats) : whereClause(SLUG_MAPPING(slug), cats[i].url)}

\* if (!loadMore && category._count.products > 0)  -- serve from the store
\* (variant: the negation of loadMore lost)
IsCacheHitInverted(loadMore, count) == loadMore /\ count > 0
IsCacheHit(loadMore, count) == ~loadMore /\ count > 0

\* Number -> decimal text, as the template literal formats it.
RECURSIVE Digits(_)
Digits(n) == IF n < 10 THEN <<Digit(n)>> ELSE Digits(n \div 10) \o <<Digit(n % 10)>>

\* (variant: one page too far)
nextPageOffByOne(currentCount) == (currentCount \div ITEMS_PER_PAGE) + 2
nextPage(currentCount) == (currentCount \div ITEMS_PER_PAGE) + 1

PageParam == "shopify_products%5Bpage%5D="

targetUrl(url, currentCount) ==
    IF currentCount = 0 THEN url
    ELSE url \o <<IF Contains(url, <<"?">>) THEN "&" ELSE "?", PageParam>>
             \o Digits(nextPage(currentCount))

\* The list handed to scrapeCategoryPages: [targetUrl]
\* (variant: the first page is visited again along with the next one)
urlsAllPages(url, currentCount) ==
    IF currentCount = 0 THEN <<url>> ELSE <<url, targetUrl(url, currentCount)>>
urls(url, currentCount) == <<targetUrl(url, currentCount)>>

\* product.createMany({data, skipDuplicates: true}): skipDuplicates skips rows
\* that hit a unique constraint; the only one is the fresh serial id.
\* (variant: rows whose key the category already holds are skipped)
createManyByKey(prods, items, categoryId) ==
    LET stored == {CardKey(r) : r \in {prods[i] : i \in {j \in 1..Len(prods) : prods[j].categoryId = categoryId}}}
        fresh == SelectSeq(items, LAMBDA it : CardKey(it) \notin stored)
    IN  prods \o [i \in 1..Len(fresh) |->
                    [title |-> fresh[i].title, author |-> fresh[i].author,
                     price |-> fresh[i].price, categoryId |-> categoryId]]
createMany(prods, items, categoryId) ==
    prods \o [i \in 1..Len(items) |->
                [title |-> items[i].title, author |-> items[i].author,
                 price |-> items[i].price, categoryId |-> categoryId]]

\* data: { lastPage: currentCount + scrapedProducts.length }
\* (variant: the count already stored is left out)
lastPageNoOffset(currentCount, scrapedProducts) == Len(scrapedProducts)
lastPage(currentCount, scrapedProducts) == currentCount + Len(scrapedProducts)

\* category.update({where: {id}, data: {lastPage}})
updateCategory(cats, id, value) == [cats EXCEPT ![id].lastPage = value]

\* this.$transaction([createMany, update]): both writes or, when the database
\* fails the transaction, neither.
\* (variant: two separate writes, the second of which may fail)
transactionSplit(ok, prods, cats, id, currentCount, scrapedProducts) ==
    [products |-> createMany(prods, scrapedProducts, id),
     categories |-> IF ok THEN updateCategory(cats, id, lastPage(currentCount, scrapedProducts))
                    ELSE cats]
transaction(ok, prods, cats, id, currentCount, scrapedProducts) ==
    IF ok
    THEN [products |-> createMany(prods, scrapedProducts, id),
          categories |-> updateCategory(cats, id, lastPage(currentCount, scrapedProducts))]
    ELSE [products |-> prods, categories |-> cats]

\* if (!category) return [];   -- after the one retry
\* (variant: a missing category rejects the call)
notFoundThrows == "error"
notFound == "done"

(***************************************************************************)
(* The state: the tables, and for each concurrent HTTP request the await   *)
(* it is suspended at (pc) and the locals of its handler activation        *)
(* (call).                                                                 *)
(***************************************************************************)
VARIABLES categories, products, collections, pc, call, calls

vars == <<categories, products, collections, pc, call, calls>>

\* Requests served at the same time, and requests served in all.
Procs == {1, 2}
MaxCalls == 2

\* The locals before a request starts.  lookups, syncs and fetches count the
\* findFirst queries, syncCategories runs and page visits of the activation.
NoCall ==
    [slug |-> <<>>, loadMore |-> FALSE, category |-> 0, currentCount |-> 0,
     urls |-> <<>>, scrapedProducts |-> <<>>, result |-> <<>>,
     lookups |-> 0, syncs |-> 0, fetches |-> 0]

Init ==
    /\ categories = <<>>
    /\ products = <<>>
    /\ collections = <<>>
    /\ pc = [p \in Procs |-> "idle"]
    /\ call = [p \in Procs |-> NoCall]
    /\ calls = 0

\* GET /category/:slug?loadMore=  ->  getProductsByCategory(slug, isLoadMore).
\* The activations are interchangeable: a request takes the lowest free one.
Call(p, slugs) ==
    /\ pc[p] = "idle"
    /\ \A q \in Procs : q < p => pc[q] # "idle"
    /\ calls < MaxCalls
    /\ \E slug \in slugs, loadMore \in BOOLEAN :
          call' = [call EXCEPT ![p] = [NoCall EXCEPT !.slug = slug, !.loadMore = loadMore]]
    /\ pc' = [pc EXCEPT ![p] = "findFirst"]
    /\ calls' = calls + 1
    /\ UNCHANGED <<categories, products, collections>>

\* The category row is in hand (with its _count): serve from the store, or
\* build the one target url and go to the scraper.
Found(p, id) ==
    LET count == CountProducts(products, id)
    IN  /\ call' = [call EXCEPT ![p].category = id,
                                ![p].currentCount = count,
                                ![p].lookups = @ + 1,
                                ![p].urls = IF IsCacheHit(call[p].loadMore, count) THEN <<>>
                                            ELSE urls(categories[id].url, count)]
        /\ pc' = [pc EXCEPT ![p] = IF IsCacheHit(call[p].loadMore, count)
                                   THEN "cacheHit" ELSE "scrape"]

\* let category = await this.category.findFirst(...)
FindFirst(p) ==
    /\ pc[p] = "findFirst"
    /\ IF findFirst(categories, call[p].slug) = {}
       THEN /\ call' = [call EXCEPT ![p].lookups = @ + 1]
            /\ pc' = [pc EXCEPT ![p] = "sync"]
       ELSE \E id \in findFirst(categories, call[p].slug) : Found(p, id)
    /\ UNCHANGED <<categories, products, calls, collections>>

\* await this.syncCategories()
Sync(p) ==
    /\ pc[p] = "sync"
    /\ \E navOk \in BOOLEAN, menu \in Menus :
          categories' = syncCategories(categories, navOk, menu)
    /\ call' = [call EXCEPT ![p].syncs = @ + 1]
    /\ pc' = [pc EXCEPT ![p] = "retry"]
    /\ UNCHANGED <<products, calls, collections>>

\* category = await this.category.findFirst(...); if (!category) return [];
Retry(p) ==
    /\ pc[p] = "retry"
    /\ IF findFirst(categories, call[p].slug) = {}
       THEN /\ call' = [call EXCEPT ![p].lookups = @ + 1, ![p].result = <<>>]
            /\ pc' = [pc EXCEPT ![p] = notFound]
       ELSE \E id \in findFirst(categories, call[p].slug) : Found(p, id)
    /\ UNCHANGED <<categories, products, calls, collections>>

\* return await this.product.findMany({where: {categoryId}})   -- cache hit
CacheHit(p) ==
    /\ pc[p] = "cacheHit"
    /\ call' = [call EXCEPT ![p].result = ProductsOf(products, call[p].category)]
    /\ pc' = [pc EXCEPT ![p] = "done"]
    /\ UNCHANGED <<categories, products, calls, collections>>

\* const scrapedProducts = await this.scrapeCategoryPages([targetUrl])
\* (variant: the transaction runs whether or not anything was scraped)
ScrapeUnguarded(p) ==
    /\ pc[p] = "scrape"
    /\ \E shown \in [1..Len(call[p].urls) -> Pages] :
          call' = [call EXCEPT ![p].scrapedProducts = scrapeCategoryPages(call[p].urls, shown),
                               ![p].fetches = @ + Len(call[p].urls)]
    /\ pc' = [pc EXCEPT ![p] = "transaction"]
    /\ UNCHANGED <<categories, products, calls, collections>>

Scrape(p) ==
    /\ pc[p] = "scrape"
    /\ \E shown \in [1..Len(call[p].urls) -> Pages] :
          LET got == scrapeCategoryPages(call[p].urls, shown)
          IN  /\ call' = [call EXCEPT ![p].scrapedProducts = got,
                                      ![p].fetches = @ + Len(call[p].urls)]
              /\ pc' = [pc EXCEPT ![p] = IF Len(got) > 0 THEN "transaction" ELSE "findMany"]
    /\ UNCHANGED <<categories, products, calls, collections>>

\* await this.$transaction([createMany, update]); a rejected transaction
\* rejects the call (there is no try/catch around it).
Transaction(p) ==
    /\ pc[p] = "transaction"
    /\ \E ok \in BOOLEAN :
          LET out == transaction(ok, products, categories, call[p].category,
                                 call[p].currentCount, call[p].scrapedProducts)
          IN  /\ products' = out.products
              /\ categories' = out.categories
              /\ pc' = [pc EXCEPT ![p] = IF ok THEN "findMany" ELSE "error"]
    /\ UNCHANGED <<call, calls, collections>>

\* return await this.product.findMany({where: {categoryId}})
FindMany(p) ==
    /\ pc[p] = "findMany"
    /\ call' = [call EXCEPT ![p].result = ProductsOf(products, call[p].category)]
    /\ pc' = [pc EXCEPT ![p] = "done"]
    /\ UNCHANGED <<categories, products, calls, collections>>

\* The response is sent (or the rejection becomes a 500) and the activation ends.
Return(p) ==
    /\ pc[p] \in {"done", "error"}
    /\ pc' = [pc EXCEPT ![p] = "idle"]
    /\ call' = [call EXCEPT ![p] = NoCall]
    /\ UNCHANGED <<categories, products, calls, collections>>

\* Requests overlap freely: Node interleaves them at every await.
Next ==
    \/ \E p \in Procs : Call(p, OverlapSlugs)
    \/ \E p \in Procs : FindFirst(p)
    \/ \E p \in Procs : Sync(p)
    \/ \E p \in Procs : Retry(p)
    \/ \E p \in Procs : CacheHit(p)
    \/ \E p \in Procs : Scrape(p)
    \/ \E p \in Procs : Transaction(p)
    \/ \E p \in Procs : FindMany(p)
    \/ \E p \in Procs : Return(p)

Spec == Init /\ [][Next]_vars

\* Requests one after the other: a request takes steps only while no other
\* request is open.
Alone(p) == \A q \in Procs \ {p} : pc[q] = "idle"

SeqNext ==
    \/ \E p \in Procs : Alone(p) /\ Call(p, Slugs)
    \/ \E p \in Procs : Alone(p) /\ FindFirst(p)
    \/ \E p \in Procs : Alone(p) /\ Sync(p)
    \/ \E p \in Procs : Alone(p) /\ Retry(p)
    \/ \E p \in Procs : Alone(p) /\ CacheHit(p)
    \/ \E p \in Procs : Alone(p) /\ Scrape(p)
    \/ \E p \in Procs : Alone(p) /\ Transaction(p)
    \/ \E p \in Procs : Alone(p) /\ FindMany(p)
    \/ \E p \in Procs : Alone(p) /\ Return(p)

SeqSpec == Init /\ [][SeqNext]_vars

(***************************************************************************)
(* Properties.                                                             *)
(***************************************************************************)

\* The request has its category row and is past the lookup.
Resolved(p) ==
    /\ pc[p] \in {"cacheHit", "scrape", "transaction", "findMany", "done", "error"}
    /\ call[p].category # 0

\* The request got through its transaction: its cards were appended.
Appended(p) ==
    /\ pc[p] \in {"findMany", "done"}
    /\ Len(call[p].scrapedProducts) > 0

\* Decimal text -> number.
RECURSIVE ParseDigits(_)
ParseDigits(ds) ==
    IF ds = <<>> THEN 0
    ELSE 10 * ParseDigits(SubSeq(ds, 1, Len(ds) - 1))
         + (CHOOSE n \in 0..9 : Digit(n) = ds[Len(ds)])

\* The page number a listing url asks for; 0 when it carries no page parameter.
RequestedPage(url) ==
    IF \E i \in 1..Len(url) : url[i] = PageParam
    THEN LET i == CHOOSE j \in 1..Len(url) : url[j] = PageParam
         IN  ParseDigits(SubSeq(url, i + 1, Len(url)))
    ELSE 0

\* C1: with requests served one after the other, no step of a
\* getProductsByCategory call lowers the stored lastPage of any category:
\* after the call it is at least what it was before.
C1_LastPageNonDecreasing ==
    [][\A id \in 1..Len(categories) :
         /\ id <= Len(categories')
         /\ categories'[id].url = categories[id].url
         /\ categories'[id].lastPage >= categories[id].lastPage]_vars

\* C1 witness: a later call has appended to a category that already had an
\* offset, and the offset went up.
C1_Witness ==
    \E p \in Procs :
        /\ Appended(p)
        /\ call[p].currentCount > 0
        /\ categories[call[p].category].lastPage > call[p].currentCount

\* C2: within one category no two stored products have the same
\* (lower-cased title, whitespace-stripped price) key.
C2_NoDuplicateKeys ==
    \A i, j \in 1..Len(products) :
        (i < j /\ products[i].categoryId = products[j].categoryId)
            => CardKey(products[i]) # CardKey(products[j])

\* C3: when a page is requested, a url without page parameter is requested
\* iff nothing is stored; otherwise the page asked for is
\* floor(currentCount / 40) + 1 of the category's url, and a page k >= 2 is
\* asked for only while at least (k - 1) * 40 products are stored.
C3_PageFollowsCount ==
    \A p \in Procs :
        pc[p] = "scrape" =>
            \A n \in 1..Len(call[p].urls) :
                LET url == call[p].urls[n]
                    k == RequestedPage(url)
                    id == call[p].category
                IN  /\ StartsWith(url, categories[id].url)
                    /\ call[p].currentCount = 0 => url = categories[id].url
                    /\ call[p].currentCount > 0 =>
                          k = (call[p].currentCount \div ITEMS_PER_PAGE) + 1
                    /\ k >= 2 => CountProducts(products, id) >= (k - 1) * ITEMS_PER_PAGE

\* C3 witness: page 2 is being requested.
C3_Witness ==
    \E p \in Procs :
        /\ pc[p] = "scrape"
        /\ Len(call[p].urls) = 1
        /\ RequestedPage(call[p].urls[1]) = 2

C5_OnePageFetch ==
    \A p \in Procs :
        /\ call[p].fetches <= 1
        /\ Len(call[p].urls) <= 1
        /\ pc[p] = "scrape" => Len(call[p].urls) = 1
        /\ pc[p] \in {"transaction", "findMany", "error"} => call[p].fetches = 1

\* C5 witness: a load-more call on a category that already holds a full page
\* has visited its one page.
C5_Witness ==
    \E p \in Procs :
        /\ pc[p] = "findMany"
        /\ call[p].loadMore
        /\ call[p].currentCount >= ITEMS_PER_PAGE
        /\ call[p].fetches = 1

\* C6: the page-append step commits whole or not at all: the step that leaves
\* the transaction either changes neither table and rejects the call, or
\* inserts every scraped card and leaves lastPage at currentCount + newCount.
C6_AtomicAppend ==
    [][\A p \in Procs :
         (pc[p] = "transaction" /\ pc'[p] # "transaction") =>
            LET id == call[p].category
                n == Len(call[p].scrapedProducts)
            IN  \/ /\ pc'[p] = "error"
                   /\ products' = products
                   /\ categories' = categories
                \/ /\ pc'[p] = "findMany"
                   /\ CountProducts(products', id) = CountProducts(products, id) + n
                   /\ categories'[id].lastPage = call[p].currentCount + n]_vars

\* C6 witness: a transaction has failed while another request is open, and
\* the failed request left no product of its page behind.
C6_Witness ==
    \E p, q \in Procs :
        /\ p # q
        /\ pc[p] = "error"
        /\ pc[q] \notin {"idle", "done", "error"}
        /\ Len(call[p].scrapedProducts) > 0
        /\ CountProducts(products, call[p].category) = call[p].currentCount

C8_LastPageNeverDecreases ==
    [][\A id \in DOMAIN categories :
         categories[id].lastPage <= categories'[id].lastPage]_vars

\* C9: two overlapping calls that read the same count of the same category
\* and both got through their transaction have both appended: the category
\* holds the cards of both, on top of the count they read.
C9_BothAppend ==
    \A p, q \in Procs :
        (/\ p # q
         /\ Appended(p)
         /\ Appended(q)
         /\ call[p].category = call[q].category
         /\ call[p].currentCount = call[q].currentCount) =>
            CountProducts(products, call[p].category)
                >= call[p].currentCount + Len(call[p].scrapedProducts)
                                        + Len(call[q].scrapedProducts)

\* C9 witness: two overlapping load-more calls read the same count, asked
\* for the same page, got the same cards and both appended them.
C9_Witness ==
    \E p, q \in Procs :
        /\ p # q
        /\ Appended(p)
        /\ Appended(q)
        /\ call[p].loadMore
        /\ call[q].loadMore
        /\ call[p].category = call[q].category
        /\ call[p].currentCount = call[q].currentCount
        /\ call[p].urls = call[q].urls
        /\ call[p].scrapedProducts = call[q].scrapedProducts
        /\ CountProducts(products, call[p].category)
              = call[p].currentCount + 2 * Len(call[p].scrapedProducts)

\* C10: a call whose lookup finds nothing runs the sync once and looks up
\* once more; when that finds nothing either, the call returns the empty list:
\* it does not reject, visits no page and has nothing to insert.
C10_NotFoundIsEmpty ==
    \A p \in Procs :
        /\ call[p].syncs <= 1
        /\ call[p].lookups <= 2
        /\ pc[p] = "retry" => (call[p].syncs = 1 /\ call[p].lookups = 1)
        /\ (pc[p] \in {"done", "error"} /\ call[p].category = 0) =>
              /\ pc[p] = "done"
              /\ call[p].syncs = 1
              /\ call[p].lookups = 2
              /\ call[p].result = <<>>
              /\ call[p].fetches = 0
              /\ call[p].scrapedProducts = <<>>

\* C10 witness: a call has returned without a category, after a sync that
\* did reach the homepage.
C10_Witness ==
    \E p \in Procs :
        /\ pc[p] = "done"
        /\ call[p].category = 0
        /\ call[p].syncs = 1
        /\ Len(categories) > 0

(***************************************************************************)
(* The category lookup over every store content: the Category table starts *)
(* as any selection of the shelves below, a request arrives and runs its   *)
(* first findFirst.                                                        *)
(***************************************************************************)
ShelfPool ==
    << <<"fiction", "books">>,
       <<"non", "fiction", "books">>,
       <<"fantasy", "fiction", "books">>,
       <<"childrens", "non", "fiction", "books">>,
       <<"romance", "books">>,
       <<"rare", "fiction", "books">>,
       <<"non", "fiction", "books", "like", "fiction", "books">> >>

\* The rows of the shelves whose index is in S, in pool order.
RECURSIVE ShelfRows(_, _)
ShelfRows(S, i) ==
    IF i > Len(ShelfPool) THEN <<>>
    ELSE (IF i \in S
          THEN <<[title |-> "Shelf", url |-> CollectionUrl(ShelfPool[i]),
                  parentId |-> 0, lastPage |-> 0]>>
          ELSE <<>>) \o ShelfRows(S, i + 1)

Stores == {ShelfRows(S, 1) : S \in SUBSET (1..Len(ShelfPool))}

LookupInit ==
    /\ categories \in Stores
    /\ products = <<>>
    /\ collections = <<>>
    /\ pc = [p \in Procs |-> "idle"]
    /\ call = [p \in Procs |-> NoCall]
    /\ calls = 0

LookupNext ==
    \/ \E p \in Procs : Alone(p) /\ Call(p, Slugs)
    \/ \E p \in Procs : Alone(p) /\ FindFirst(p)

LookupSpec == LookupInit /\ [][LookupNext]_vars

NonFictionFragment == SLUG_MAPPING(NonFictionSlug)

\* C11: whatever the Category table holds, the row a lookup for the slug
\* "fiction-books" selects never has a url containing the non-fiction
\* fragment 'collections/non-fiction-books'.
C11_FictionLookupExcludesNonFiction ==
    \A p \in Procs :
        (Resolved(p) /\ call[p].slug = FictionSlug)
            => ~Contains(categories[call[p].category].url, NonFictionFragment)

\* A fiction lookup selected a row of a table that also holds a non-fiction url.
C11_Witness ==
    \E p \in Procs :
        /\ Resolved(p)
        /\ call[p].slug = FictionSlug
        /\ \E i \in 1..Len(categories) : Contains(categories[i].url, NonFictionFragment)

(***************************************************************************)
(* searchAndScrapeProduct (GET /search?q=): the Product lookup by title,   *)
(* the search crawl and the upsert.  Product rows carry a summary here; a  *)
(* row without the field has summary NULL.                                 *)
(***************************************************************************)
Summary(row) == IF "summary" \in DOMAIN row THEN row.summary ELSE ""

DuneDeluxe == Dune \o <<" ">> \o <<"D", "e", "l", "u", "x", "e">>

\* where: { title: { contains: productName } } -- the rows findFirst may
\* return (no orderBy, and no condition on summary)
productFindFirst(prods, productName) ==
    {i \in 1..Len(prods) : Contains(prods[i].title, productName)}

\* The result cards of the search page: anchor text and href.
SearchAnchor(text, href) == [text |-> text, href |-> href]

\* page.evaluate: the href of the first anchor whose text equals, contains
\* or is contained by the query (both lower-cased and trimmed); <<>> is null.
RECURSIVE matchedHref(_, _)
matchedHref(anchors, term) ==
    IF anchors = <<>> THEN <<>>
    ELSE LET q == Trim(ToLowerCase(term))
             txt == ToLowerCase(Trim(Head(anchors).text))
         IN  IF /\ txt # <<>>
                /\ (txt = q \/ Contains(txt, q) \/ Contains(q, txt))
                /\ Head(anchors).href # <<>>
             THEN Head(anchors).href
             ELSE matchedHref(Tail(anchors), term)

\* What the search page may show; the empty page is also what a failed
\* navigation leaves.
SearchPages ==
    { <<>>,
      << SearchAnchor(<<" ">> \o DuneDeluxe, <<"/", "p", "2">>),
         SearchAnchor(Dune, <<"/", "p", "1">>) >>,
      << SearchAnchor(Emma, <<>>), SearchAnchor(Emma, <<"/", "p", "3">>) >> }

\* The summaries a product page may yield (extracted.summary || '').
Summaries == {"", "A classic."}

\* performSearchAndDeepScrape: <<>> is null, else the one ProductDetails.
\* ran: crawler.run did not reject; scraped: deepSearchScraper did not fail.
performSearchAndDeepScrape(query, ran, anchors, scraped, summary) ==
    IF ran /\ matchedHref(anchors, query) # <<>> /\ scraped
    THEN << [summary |-> summary, href |-> matchedHref(anchors, query)] >>
    ELSE <<>>

\* The navigations of the crawl: the start url the crawler opens, then in
\* the handler the search page, and the product page when an anchor matched.
navigationsOf(query, ran, anchors) ==
    IF ~ran THEN 1
    ELSE IF matchedHref(anchors, query) # <<>> THEN 3 ELSE 2

\* product.upsert({where: {id}, update: {summary, ...}, create: {...}}):
\* the row of an existing product is updated in place; with no existing
\* product (id -1) the fallback row is created under category 1, which the
\* foreign key Product_categoryId_fkey rejects when no such category exists.
upsertOk(cats, existing) == existing # 0 \/ Len(cats) >= 1

upsert(prods, existing, productName, details) ==
    IF existing # 0
    THEN [prods EXCEPT ![existing] =
             [f \in DOMAIN @ \cup {"summary"} |->
                 IF f = "summary" THEN details.summary ELSE @[f]]]
    ELSE Append(prods, [title |-> productName, author |-> "", price |-> <<"0", ".", "00">>,
                        categoryId |-> 1, summary |-> details.summary])

\* The locals of one searchAndScrapeProduct activation, and what it did.
NoSearch ==
    [query |-> <<>>, existingProduct |-> 0, details |-> <<>>, result |-> <<>>,
     navigations |-> 0, writes |-> 0]

\* The Product table a search may find: each title absent, stored without a
\* summary, or stored with one.
SearchTitles == <<Dune, DuneDeluxe, Emma>>

RECURSIVE SearchRows(_, _, _)
SearchRows(kind, categoryId, i) ==
    IF i > Len(SearchTitles) THEN <<>>
    ELSE (IF kind[i] = "absent" THEN <<>>
          ELSE <<[title |-> SearchTitles[i], author |-> "Unknown", price |-> <<"GBP", "1">>,
                  categoryId |-> categoryId,
                  summary |-> IF kind[i] = "summarised" THEN "Stored." ELSE ""]>>)
         \o SearchRows(kind, categoryId, i + 1)

SearchInit ==
    /\ categories \in {<<>>, ShelfRows({1}, 1)}
    /\ \E kind \in [1..Len(SearchTitles) -> {"absent", "bare", "summarised"}] :
          products = SearchRows(kind, Len(categories), 1)
    /\ collections = <<>>
    /\ pc = [p \in Procs |-> "idle"]
    /\ call = [p \in Procs |-> NoSearch]
    /\ calls = 0

\* The queries GET /search arrives with; the empty one is rejected.
Queries == {<<>>, Dune, DuneLower, Emma}

\* Requests are numbered in arrival order and served one after the other;
\* a finished activation keeps its record at "returned".
SearchAlone(p) == \A q \in Procs \ {p} : pc[q] \in {"idle", "returned"}

\* GET /search?q=  ->  searchProduct(query): an empty query is a 400.
\* (variant: the query is handed to searchAndScrapeProduct unchecked)
SearchProductUnchecked(p) ==
    /\ pc[p] = "idle"
    /\ \A q \in Procs : q < p => pc[q] # "idle"
    /\ calls < MaxCalls
    /\ \E query \in Queries :
          /\ call' = [call EXCEPT ![p] = [NoSearch EXCEPT !.query = query]]
          /\ pc' = [pc EXCEPT ![p] = "lookup"]
    /\ calls' = calls + 1
    /\ UNCHANGED <<categories, products, collections>>

SearchProduct(p) ==
    /\ pc[p] = "idle"
    /\ \A q \in Procs : q < p => pc[q] # "idle"
    /\ calls < MaxCalls
    /\ \E query \in Queries :
          /\ call' = [call EXCEPT ![p] = [NoSearch EXCEPT !.query = query]]
          /\ pc' = [pc EXCEPT ![p] = IF query = <<>> THEN "error" ELSE "lookup"]
    /\ calls' = calls + 1
    /\ UNCHANGED <<categories, products, collections>>

\* const existingProduct = await this.product.findFirst(...);
\* if (existingProduct && existingProduct.summary) return existingProduct;
ProductFindFirst(p) ==
    /\ pc[p] = "lookup"
    /\ IF productFindFirst(products, call[p].query) = {}
       THEN /\ call' = [call EXCEPT ![p].existingProduct = 0]
            /\ pc' = [pc EXCEPT ![p] = "crawl"]
       ELSE \E id \in productFindFirst(products, call[p].query) :
               IF Summary(products[id]) # ""
               THEN /\ call' = [call EXCEPT ![p].existingProduct = id,
                                            ![p].result = <<products[id]>>]
                    /\ pc' = [pc EXCEPT ![p] = "done"]
               ELSE /\ call' = [call EXCEPT ![p].existingProduct = id]
                    /\ pc' = [pc EXCEPT ![p] = "crawl"]
    /\ UNCHANGED <<categories, products, collections, calls>>

\* const details = await this.performSearchAndDeepScrape(productName);
\* ... return null when there are none.
PerformSearchAndDeepScrape(p) ==
    /\ pc[p] = "crawl"
    /\ \E ran \in BOOLEAN, anchors \in SearchPages, scraped \in BOOLEAN, summary \in Summaries :
          LET details == performSearchAndDeepScrape(call[p].query, ran, anchors, scraped, summary)
          IN  /\ call' = [call EXCEPT ![p].details = details,
                                      ![p].navigations = @ + navigationsOf(call[p].query, ran, anchors)]
              /\ pc' = [pc EXCEPT ![p] = IF details # <<>> THEN "upsert" ELSE "done"]
    /\ UNCHANGED <<categories, products, collections, calls>>

\* await this.product.upsert(...); return details;
Upsert(p) ==
    /\ pc[p] = "upsert"
    /\ IF upsertOk(categories, call[p].existingProduct)
       THEN /\ products' = upsert(products, call[p].existingProduct, call[p].query,
                                  call[p].details[1])
            /\ call' = [call EXCEPT ![p].writes = @ + 1, ![p].result = call[p].details]
            /\ pc' = [pc EXCEPT ![p] = "done"]
       ELSE /\ pc' = [pc EXCEPT ![p] = "error"]
            /\ UNCHANGED <<products, call>>
    /\ UNCHANGED <<categories, collections, calls>>

\* The response is sent (or the rejection becomes an error response).
SearchReturn(p) ==
    /\ pc[p] \in {"done", "error"}
    /\ pc' = [pc EXCEPT ![p] = "returned"]
    /\ UNCHANGED <<categories, products, collections, call, calls>>

SearchNext ==
    \/ \E p \in Procs : SearchAlone(p) /\ SearchProduct(p)
    \/ \E p \in Procs : SearchAlone(p) /\ ProductFindFirst(p)
    \/ \E p \in Procs : SearchAlone(p) /\ PerformSearchAndDeepScrape(p)
    \/ \E p \in Procs : SearchAlone(p) /\ Upsert(p)
    \/ \E p \in Procs : SearchAlone(p) /\ SearchReturn(p)

SearchSpec == SearchInit /\ [][SearchNext]_vars

\* The stored products a search for productName can serve from the store:
\* the title contains the query and the summary is not empty.
SummarisedMatches(prods, productName) ==
    {i \in 1..Len(prods) : Contains(prods[i].title, productName) /\ Summary(prods[i]) # ""}

\* The activation answered from the store: it returned a product row whose
\* title contains the query and whose summary is not empty, and it neither
\* navigated nor wrote.
ServedFromStore(c) ==
    /\ c.result # <<>>
    /\ "title" \in DOMAIN c.result[1]
    /\ Contains(c.result[1].title, c.query)
    /\ Summary(c.result[1]) # ""
    /\ c.navigations = 0
    /\ c.writes = 0

\* C12: when a search has stored a non-empty summary (by updating the
\* product it found or by creating the fallback row), a later search for the
\* same query is answered from the store: it returns the cached product and
\* performs no navigation and no write.
C12_SecondCallCached ==
    \A p, r \in Procs :
        ( /\ p < r
          /\ pc[p] = "returned"
          /\ call[p].writes > 0
          /\ call[p].details[1].summary # ""
          /\ call[r].query = call[p].query
          /\ pc[r] \in {"crawl", "upsert", "done", "error", "returned"} )
        => ServedFromStore(call[r])

\* C13: whenever the store holds a product whose title contains the query
\* and whose summary is not empty, the lookup ends the search at once with
\* such a product and no network activity, even when other products whose
\* title contains the query have no summary.
C13_ReturnsSummarisedProduct ==
    [][ \A p \in Procs :
          ( /\ pc[p] = "lookup"
            /\ pc'[p] # "lookup"
            /\ SummarisedMatches(products, call[p].query) # {} )
          => (pc'[p] = "done" /\ ServedFromStore(call'[p])) ]_vars

(***************************************************************************)
(* getBestsellers (GET /bestsellers): the Collection cache test, the       *)
(* homepage scrape and the creation of one Collection per section.         *)
(* Collection rows are [title], the row at index i has id i; title is      *)
(* unique (Collection_title_key).                                          *)
(***************************************************************************)
Chars(str) ==
    CASE str = "Bestsellers" -> <<"B", "e", "s", "t", "s", "e", "l", "l", "e", "r", "s">>
      [] str = "New In"      -> <<"N", "e", "w", " ", "I", "n">>
      [] str = "Rare"        -> <<"R", "a", "r", "e">>
      [] str = "Fiction"     -> <<"F", "i", "c", "t", "i", "o", "n">>
      [] str = "Non-Fiction" -> <<"N", "o", "n", "-", "F", "i", "c", "t", "i", "o", "n">>
      [] str = "Children"    -> <<"C", "h", "i", "l", "d", "r", "e", "n">>
      [] str = "rare"        -> <<"r", "a", "r", "e">>
      [] str = "fiction"     -> <<"f", "i", "c", "t", "i", "o", "n">>
      [] str = "non-fiction" -> <<"n", "o", "n", "-", "f", "i", "c", "t", "i", "o", "n">>
      [] str = "children"    -> <<"c", "h", "i", "l", "d", "r", "e", "n">>

\* [a-z0-9]
IsAlnum(c) ==
    c \in {"a", "b", "c", "d", "e", "f", "g", "h", "i", "j", "k", "l", "m", "n", "o", "p",
           "q", "r", "s", "t", "u", "v", "w", "x", "y", "z",
           "0", "1", "2", "3", "4", "5", "6", "7", "8", "9"}

\* t.replace(/[^a-z0-9]+/g, '-'): every run of other characters becomes one "-".
RECURSIVE Slugify(_, _)
Slugify(t, inRun) ==
    IF t = <<>> THEN <<>>
    ELSE IF IsAlnum(Head(t)) THEN <<Head(t)>> \o Slugify(Tail(t), FALSE)
    ELSE (IF inRun THEN <<>> ELSE <<"-">>) \o Slugify(Tail(t), TRUE)

getCategorySlug(title) ==
    LET t == ToLowerCase(title)
    IN  IF Contains(t, Chars("non-fiction")) THEN NonFictionSlug \o <<"-", "books">>
        ELSE IF Contains(t, Chars("fiction")) THEN FictionSlug
        ELSE IF Contains(t, Chars("children")) THEN Dash(<<"childrens", "books">>)
        ELSE IF Contains(t, Chars("rare")) THEN Dash(<<"rare", "books">>)
        ELSE Slugify(t, FALSE)

\* A homepage container: its h2 (when it has one) and its cards.
Container(hasHeader, innerText, cards) ==
    [hasHeader |-> hasHeader, innerText |-> innerText, cards |-> cards]

BestCard(title, price, author) == [title |-> title, price |-> price, author |-> author]

CardDune == BestCard(Dune, <<"GBP", "1">>, "Herbert")
CardEmma == BestCard(Emma, <<"GBP", "2">>, "")
CardNoPrice == BestCard(Emma, <<>>, "Austen")

\* What the homepage may show; the empty page is also what a failed
\* navigation leaves (goto(...).catch).
Homepages ==
    { <<>>,
      << Container(TRUE, Chars("New In"), <<CardDune, CardNoPrice>>) >>,
      << Container(FALSE, <<>>, <<CardDune>>), Container(FALSE, <<>>, <<CardEmma>>) >>,
      << Container(TRUE, <<" ">> \o Chars("Rare") \o <<" ">>, <<CardEmma>>),
         Container(TRUE, Chars("New In"), <<CardNoPrice>>),
         Container(FALSE, <<>>, <<CardDune, CardEmma>>) >>,
      << Container(TRUE, Chars("Fiction"), <<CardDune>>),
         Container(TRUE, Chars("Non-Fiction"), <<CardEmma>>) >>,
      << Container(TRUE, Chars("Children"), <<CardEmma>>) >>,
      << Container(TRUE, <<>>, <<CardDune>>) >>,
      << Container(TRUE, Chars("New In"), <<CardDune>>),
         Container(TRUE, Chars("New In") \o <<" ">>, <<CardEmma>>),
         Container(FALSE, <<>>, <<CardDune>>) >> }

\* The products of one container: cards with a title and a price.
RECURSIVE sectionProducts(_)
sectionProducts(cards) ==
    IF cards = <<>> THEN <<>>
    ELSE LET card == Head(cards)
         IN  (IF card.title # <<>> /\ card.price # <<>>
              THEN <<[title |-> card.title, price |-> card.price,
                      author |-> IF card.author = "" THEN "Unknown" ELSE card.author]>>
              ELSE <<>>) \o sectionProducts(Tail(cards))

\* scrapeBestsellers: one section per container that has products, titled by
\* its heading or 'Bestsellers', with the slug derived from the title.
RECURSIVE scrapeBestsellers(_)
scrapeBestsellers(containers) ==
    IF containers = <<>> THEN <<>>
    ELSE LET container == Head(containers)
             sectionTitle == IF container.hasHeader THEN Trim(container.innerText)
                             ELSE Chars("Bestsellers")
             prods == sectionProducts(container.cards)
         IN  (IF Len(prods) > 0
              THEN <<[title |-> sectionTitle, slug |-> getCategorySlug(sectionTitle),
                      products |-> prods]>>
              ELSE <<>>) \o scrapeBestsellers(Tail(containers))

\* collection.findMany({include: {products: true}}) mapped to add the slug.
cachedCollections(colls, prods) ==
    [i \in 1..Len(colls) |->
        [title |-> colls[i].title, slug |-> getCategorySlug(colls[i].title),
         products |-> SelectSeq(prods, LAMBDA r : "collectionId" \in DOMAIN r
                                                  /\ r.collectionId = i)]]

\* collection.create({data: {title, products: {create: [...]}}}): rejected
\* with P2002 when a collection of that title exists.
collectionCreateOk(colls, section) ==
    \A i \in 1..Len(colls) : colls[i].title # section.title

createdProducts(section, collectionId) ==
    [i \in 1..Len(section.products) |->
        [title |-> section.products[i].title,
         author |-> IF section.products[i].author = "" THEN "Unknown Author"
                    ELSE section.products[i].author,
         price |-> section.products[i].price,
         categoryId |-> 0,
         collectionId |-> collectionId]]

\* The locals of one getBestsellers activation, and what it did: created
\* lists the ids of the collections it created, error the rejection it
\* ended with.
NoBest ==
    [sections |-> <<>>, i |-> 0, created |-> <<>>, result |-> <<>>,
     navigations |-> 0, error |-> ""]

BestInit ==
    /\ categories = <<>>
    /\ products = <<>>
    /\ collections = <<>>
    /\ pc = [p \in Procs |-> "idle"]
    /\ call = [p \in Procs |-> NoBest]
    /\ calls = 0

\* GET /bestsellers  ->  getBestsellers().  Requests are numbered in arrival
\* order; a finished activation keeps its record at "returned".
GetBestsellers(p) ==
    /\ pc[p] = "idle"
    /\ \A q \in Procs : q < p => pc[q] # "idle"
    /\ calls < MaxCalls
    /\ pc' = [pc EXCEPT ![p] = "findMany"]
    /\ calls' = calls + 1
    /\ UNCHANGED <<categories, products, collections, call>>

\* const cachedCollections = await this.collection.findMany(...);
\* if (cachedCollections.length > 0) return them with their slugs.
CollectionFindMany(p) ==
    /\ pc[p] = "findMany"
    /\ IF Len(collections) > 0
       THEN /\ call' = [call EXCEPT ![p].result = cachedCollections(collections, products)]
            /\ pc' = [pc EXCEPT ![p] = "done"]
       ELSE /\ pc' = [pc EXCEPT ![p] = "scrapeBestsellers"]
            /\ UNCHANGED call
    /\ UNCHANGED <<categories, products, collections, calls>>

\* const sections = await this.scrapeBestsellers(); a rejected crawler.run
\* rejects the call (it has no catch).
ScrapeBestsellers(p) ==
    /\ pc[p] = "scrapeBestsellers"
    /\ \E ran \in BOOLEAN, home \in Homepages :
          IF ran
          THEN LET sections == scrapeBestsellers(home)
               IN  /\ call' = [call EXCEPT ![p].sections = sections, ![p].i = 1,
                                           ![p].navigations = @ + 1,
                                           ![p].result = IF sections = <<>> THEN <<>> ELSE @]
                   /\ pc' = [pc EXCEPT ![p] = IF sections = <<>> THEN "done" ELSE "create"]
          ELSE /\ call' = [call EXCEPT ![p].navigations = @ + 1, ![p].error = "crawler"]
               /\ pc' = [pc EXCEPT ![p] = "error"]
    /\ UNCHANGED <<categories, products, collections, calls>>

\* for (const section of sections) await this.collection.create(...): one
\* turn of the loop; after the last one, return sections.
CollectionCreate(p) ==
    /\ pc[p] = "create"
    /\ LET section == call[p].sections[call[p].i]
           last == call[p].i = Len(call[p].sections)
       IN  IF collectionCreateOk(collections, section)
           THEN /\ collections' = Append(collections, [title |-> section.title])
                /\ products' = products \o createdProducts(section, Len(collections) + 1)
                /\ call' = [call EXCEPT ![p].created = Append(@, Len(collections) + 1),
                                        ![p].i = @ + 1,
                                        ![p].result = IF last THEN call[p].sections ELSE @]
                /\ pc' = [pc EXCEPT ![p] = IF last THEN "done" ELSE "create"]
           ELSE /\ call' = [call EXCEPT ![p].error = "P2002"]
                /\ pc' = [pc EXCEPT ![p] = "error"]
                /\ UNCHANGED <<collections, products>>
    /\ UNCHANGED <<categories, calls>>

\* The response is sent (or the rejection becomes an error response).
BestReturn(p) ==
    /\ pc[p] \in {"done", "error"}
    /\ pc' = [pc EXCEPT ![p] = "returned"]
    /\ UNCHANGED <<categories, products, collections, call, calls>>

\* Requests overlap freely.
BestNext ==
    \/ \E p \in Procs : GetBestsellers(p)
    \/ \E p \in Procs : CollectionFindMany(p)
    \/ \E p \in Procs : ScrapeBestsellers(p)
    \/ \E p \in Procs : CollectionCreate(p)
    \/ \E p \in Procs : BestReturn(p)

BestSpec == BestInit /\ [][BestNext]_vars

\* Requests one after the other.
BestSeqNext ==
    \/ \E p \in Procs : SearchAlone(p) /\ GetBestsellers(p)
    \/ \E p \in Procs : SearchAlone(p) /\ CollectionFindMany(p)
    \/ \E p \in Procs : SearchAlone(p) /\ ScrapeBestsellers(p)
    \/ \E p \in Procs : SearchAlone(p) /\ CollectionCreate(p)
    \/ \E p \in Procs : SearchAlone(p) /\ BestReturn(p)

BestSeqSpec == BestInit /\ [][BestSeqNext]_vars

\* C14: a duplicate insert is never surfaced to the caller: no getBestsellers
\* call ends with the unique-constraint rejection of collection.create,
\* neither when two scraped sections carry the same title nor when two
\* overlapping calls persist the same section titles.
C14_DuplicateNotSurfaced ==
    \A p \in Procs : call[p].error # "P2002"

\* The titles and slugs of a list of sections or collections.
TitlesAndSlugs(list) ==
    [i \in 1..Len(list) |-> <<list[i].title, list[i].slug>>]

\* The activation is over (its response or its rejection is decided).
BestOver(p) == pc[p] \in {"done", "error", "returned"}

\* C15: a getBestsellers call that scraped the homepage created exactly one
\* Collection per non-empty scraped section, and a later call returns the
\* stored collections, with the titles and derived slugs of those sections,
\* without navigating and without creating any collection or product.
C15_OneCollectionPerSection ==
    /\ \A p \in Procs :
          (BestOver(p) /\ call[p].error # "crawler" /\ call[p].navigations > 0)
          => /\ Len(call[p].created) = Len(call[p].sections)
             /\ \A i \in 1..Len(call[p].created) :
                   collections[call[p].created[i]].title = call[p].sections[i].title
    /\ \A p, r \in Procs :
          (p < r /\ BestOver(p) /\ Len(call[p].sections) > 0 /\ BestOver(r))
          => /\ call[r].navigations = 0
             /\ call[r].created = <<>>
             /\ TitlesAndSlugs(call[r].result) = TitlesAndSlugs(call[p].sections)

(***************************************************************************)
(* syncCategories over any menu: each run sees the homepage show any       *)
(* selection of the anchors below (in this document order), or fails to    *)
(* open it.                                                                *)
(***************************************************************************)
AnchorPool ==
    << Anchor("Fiction Books", "", RelativeHref(<<"fiction", "books">>)),
       Anchor("Fiction Books", "Fantasy", RelativeHref(<<"fantasy", "fiction", "books">>)),
       Anchor("Rare Books", "Rare Fiction", CollectionUrl(<<"rare", "fiction", "books">>)),
       Anchor("Romance", "", RelativeHref(<<"romance">>)),
       Anchor("Travel", "Maps", RelativeHref(<<"maps", "books">>)),
       Anchor("Maps", "", RelativeHref(<<"maps", "books">>)) >>

RECURSIVE MenuOf(_, _)
MenuOf(S, i) ==
    IF i > Len(AnchorPool) THEN <<>>
    ELSE (IF i \in S THEN <<AnchorPool[i]>> ELSE <<>>) \o MenuOf(S, i + 1)

SyncMenus == {MenuOf(S, 1) : S \in SUBSET (1..Len(AnchorPool))}

\* The input of one syncCategories run.
NoSync == [navOk |-> FALSE, anchors |-> <<>>]

SyncInit ==
    /\ categories = <<>>
    /\ products = <<>>
    /\ collections = <<>>
    /\ pc = [p \in Procs |-> "idle"]
    /\ call = [p \in Procs |-> NoSync]
    /\ calls = 0

\* await this.syncCategories(): one run after the other.
SyncCategories(p) ==
    /\ pc[p] = "idle"
    /\ \A q \in Procs : q < p => pc[q] # "idle"
    /\ calls < MaxCalls
    /\ \E navOk \in BOOLEAN, menu \in SyncMenus \cup Menus :
          /\ (~navOk => menu = <<>>)
          /\ categories' = syncCategories(categories, navOk, menu)
          /\ call' = [call EXCEPT ![p] = [navOk |-> navOk, anchors |-> menu]]
    /\ pc' = [pc EXCEPT ![p] = "synced"]
    /\ calls' = calls + 1
    /\ UNCHANGED <<products, collections>>

\* return await this.category.findMany({where: {parentId: null}, ...})
SyncReturn(p) ==
    /\ pc[p] = "synced"
    /\ pc' = [pc EXCEPT ![p] = "idle"]
    /\ UNCHANGED <<categories, products, collections, call, calls>>

SyncNext ==
    \/ \E p \in Procs : Alone(p) /\ SyncCategories(p)
    \/ \E p \in Procs : Alone(p) /\ SyncReturn(p)

SyncSpec == SyncInit /\ [][SyncNext]_vars

\* The four parent names with a canonical collection url.
KnownParents == {"Fiction Books", "Non-Fiction Books", "Children's Books", "Rare Books"}

CanonicalUrl(parentName) ==
    CASE parentName = "Fiction Books" -> CollectionUrl(<<"fiction", "books">>)
      [] parentName = "Non-Fiction Books" -> CollectionUrl(<<"non", "fiction", "books">>)
      [] parentName = "Children's Books" -> CollectionUrl(<<"childrens", "books">>)
      [] parentName = "Rare Books" -> CollectionUrl(<<"rare", "books">>)

\* The parent names of the links the last run of p extracted.
SyncedParents(p) ==
    {ExtractLinks(call[p].anchors)[i].parentName : i \in 1..Len(ExtractLinks(call[p].anchors))}

\* C16: after a sync, each of the four known parent names that appears among
\* the anchors has a category titled with that name at its canonical
\* collection url, also when the parent has child anchors.
C16_KnownParentsAtCanonicalUrl ==
    \A p \in Procs :
        (pc[p] = "synced" /\ call[p].navOk)
        => \A name \in KnownParents \cap SyncedParents(p) :
              \E i \in 1..Len(categories) :
                  /\ categories[i].title = name
                  /\ categories[i].url = CanonicalUrl(name)

\* C17: after any sequence of syncs, every category the last sync persisted
\* as a parent (an entry of its categoryMap) has no parent reference, and no
\* category references itself as its parent.
C17_RootsHaveNoParent ==
    /\ \A i \in 1..Len(categories) : categories[i].parentId # i
    /\ \A p \in Procs :
          (pc[p] = "synced" /\ call[p].navOk)
          => LET map == categoryMap(ExtractLinks(call[p].anchors))
             IN  \A k \in 1..Len(map) :
                    /\ CategoryByUrl(categories, map[k].url) # 0
                    /\ categories[CategoryByUrl(categories, map[k].url)].parentId = 0

\* C18: after any sync returns, every url of the core seed list has a
\* category, whether or not the page supplied an anchor for it and whether
\* or not the homepage navigation succeeded.
C18_SeedsStored ==
    \A p \in Procs :
        pc[p] = "synced"
        => \A k \in 1..Len(coreCategories) :
              CategoryByUrl(categories, coreCategories[k].url) # 0

(***************************************************************************)
(* getProductsByIds (POST /history): the conversion of the requested ids   *)
(* to numbers, the findMany over them and the reordering.                  *)
(***************************************************************************)
IsDigit(c) == c \in {"0", "1", "2", "3", "4", "5", "6", "7", "8", "9"}

AllDigits(s) == \A i \in 1..Len(s) : IsDigit(s[i])

\* A JS number as far as the ids need it: NaN, or a whole part and the
\* digits after the point (frac = 0 for an integer).
NaN == [nan |-> TRUE, whole |-> 0, frac |-> 0]
Num(whole, frac) == [nan |-> FALSE, whole |-> whole, frac |-> frac]

\* Number(id) for unsigned decimal text: blank text is 0, digits are the
\* integer, digits.digits a fraction, anything else NaN.
Number(id) ==
    LET t == Trim(id)
        dots == {i \in 1..Len(t) : t[i] = "."}
    IN  IF t = <<>> THEN Num(0, 0)
        ELSE IF AllDigits(t) THEN Num(ParseDigits(t), 0)
        ELSE IF Cardinality(dots) = 1 /\ Len(t) > 1
             THEN LET d == CHOOSE i \in dots : TRUE
                      w == SubSeq(t, 1, d - 1)
                      f == SubSeq(t, d + 1, Len(t))
                  IN  IF AllDigits(w) /\ AllDigits(f)
                      THEN Num(ParseDigits(w), ParseDigits(f))
                      ELSE NaN
             ELSE NaN

\* ids.map(id => Number(id)).filter(id => !isNaN(id))
numericIds(ids) == SelectSeq([i \in 1..Len(ids) |-> Number(ids[i])], LAMBDA n : ~n.nan)

\* product.findMany({where: {id: {in: numericIds}}, select: {...}}): the id
\* column is an Int, and the client rejects a number that is not an integer.
historyFindManyOk(nums) == \A i \in 1..Len(nums) : nums[i].frac = 0

Selected(prods, id) ==
    [id |-> id, title |-> prods[id].title, author |-> prods[id].author,
     price |-> prods[id].price]

historyProducts(prods, nums) ==
    {id \in 1..Len(prods) : \E i \in 1..Len(nums) : nums[i].whole = id /\ nums[i].frac = 0}

\* numericIds.map(id => historyProducts.find(p => p.id === id)).filter(Boolean)
RECURSIVE orderedProducts(_, _, _)
orderedProducts(prods, nums, found) ==
    IF nums = <<>> THEN <<>>
    ELSE (IF Head(nums).frac = 0 /\ Head(nums).whole \in found
          THEN <<Selected(prods, Head(nums).whole)>>
          ELSE <<>>) \o orderedProducts(prods, Tail(nums), found)

\* The id texts a history request may carry.
IdPool ==
    { <<"1">>, <<"2">>, <<"9", "9">>, <<"0", "1">>, <<"a", "b", "c">>, <<>>,
      <<"1", ".", "5">>, <<"2", ".", "0">> }

MaxIds == 2

IdLists == UNION {[1..n -> IdPool] : n \in 0..MaxIds}

\* The Product table a history request may find: the first n of these rows.
HistoryRows ==
    << [title |-> Dune, author |-> "Herbert", price |-> <<"GBP", "1">>, categoryId |-> 0],
       [title |-> Emma, author |-> "Unknown", price |-> <<"GBP", "2">>, categoryId |-> 0],
       [title |-> DuneDeluxe, author |-> "Herbert", price |-> <<"GBP", "3">>, categoryId |-> 0] >>

NoHistory == [hasIds |-> FALSE, ids |-> <<>>, numericIds |-> <<>>, result |-> <<>>]

HistoryInit ==
    /\ categories = <<>>
    /\ \E n \in 0..Len(HistoryRows) : products = SubSeq(HistoryRows, 1, n)
    /\ collections = <<>>
    /\ pc = [p \in Procs |-> "idle"]
    /\ call = [p \in Procs |-> NoHistory]
    /\ calls = 0

\* POST /history -> getHistory(body): a body without an ids array is a 400;
\* else getProductsByIds(ids) up to its findMany.
GetHistory(p) ==
    /\ pc[p] = "idle"
    /\ \A q \in Procs : q < p => pc[q] # "idle"
    /\ calls < MaxCalls
    /\ \E hasIds \in BOOLEAN, ids \in IdLists :
          /\ (~hasIds => ids = <<>>)
          /\ call' = [call EXCEPT ![p] = [hasIds |-> hasIds, ids |-> ids,
                                          numericIds |-> numericIds(ids), result |-> <<>>]]
          /\ pc' = [pc EXCEPT ![p] = IF ~hasIds THEN "error"
                                     ELSE IF numericIds(ids) = <<>> THEN "done"
                                     ELSE "findMany"]
    /\ calls' = calls + 1
    /\ UNCHANGED <<categories, products, collections>>

\* const historyProducts = await this.product.findMany(...); reorder and
\* return; a rejected findMany is caught and answered with [].
HistoryFindMany(p) ==
    /\ pc[p] = "findMany"
    /\ call' = [call EXCEPT ![p].result =
                   IF historyFindManyOk(call[p].numericIds)
                   THEN orderedProducts(products, call[p].numericIds,
                                        historyProducts(products, call[p].numericIds))
                   ELSE <<>>]
    /\ pc' = [pc EXCEPT ![p] = "done"]
    /\ UNCHANGED <<categories, products, collections, calls>>

HistoryReturn(p) ==
    /\ pc[p] \in {"done", "error"}
    /\ pc' = [pc EXCEPT ![p] = "idle"]
    /\ call' = [call EXCEPT ![p] = NoHistory]
    /\ UNCHANGED <<categories, products, collections, calls>>

HistoryNext ==
    \/ \E p \in Procs : Alone(p) /\ GetHistory(p)
    \/ \E p \in Procs : Alone(p) /\ HistoryFindMany(p)
    \/ \E p \in Procs : Alone(p) /\ HistoryReturn(p)

HistorySpec == HistoryInit /\ [][HistoryNext]_vars

\* The ids of the stored products the request names, in the order of the
\* requested ids: an id text names the product whose id is its number.
RECURSIVE RequestedStored(_, _)
RequestedStored(ids, prods) ==
    IF ids = <<>> THEN <<>>
    ELSE LET n == Number(Head(ids))
         IN  (IF ~n.nan /\ n.frac = 0 /\ n.whole \in 1..Len(prods)
              THEN <<n.whole>> ELSE <<>>) \o RequestedStored(Tail(ids), prods)

\* C19: getProductsByIds returns exactly the stored products whose id occurs
\* in the requested list, in the order of the requested ids, omitting ids
\* that match no product, and no product that was not requested.
C19_HistoryInRequestOrder ==
    \A p \in Procs :
        pc[p] = "done"
        => [i \in 1..Len(call[p].result) |-> call[p].result[i].id]
              = RequestedStored(call[p].ids, products)

(***************************************************************************)
(* handleCookieConsent(page, log): the page it is called on has or has not *)
(* a banner and visible reject / accept controls, and each page call may   *)
(* reject (fail).  pc is the await the routine is at; "returned" and       *)
(* "raised" are its two possible ends.                                     *)
(***************************************************************************)
CookieSteps == {"query", "rejectVisible", "clickReject", "acceptVisible", "clickAccept", "wait"}

CookiePages ==
    [banner : BOOLEAN, reject : BOOLEAN, accept : BOOLEAN,
     fail : SUBSET CookieSteps, clicked : {""}, log : {""}]

CookieInit ==
    /\ categories = <<>>
    /\ products = <<>>
    /\ collections = <<>>
    /\ pc = [p \in Procs |-> IF p = 1 THEN "query" ELSE "idle"]
    /\ \E page \in CookiePages : call = [p \in Procs |-> page]
    /\ calls = 0

\* const banner = await page.$(bannerSelector); if (banner) {...}
\* A rejection reaches the outer catch, which logs and returns.
\* (variant: without the outer try/catch)
pageQueryUncaught(failed, banner) ==
    IF failed THEN "raised" ELSE IF banner THEN "rejectVisible" ELSE "returned"

pageQuery(failed, banner) ==
    IF failed THEN "returned" ELSE IF banner THEN "rejectVisible" ELSE "returned"

PageQuery(p) ==
    /\ pc[p] = "query"
    /\ pc' = [pc EXCEPT ![p] = pageQuery("query" \in call[p].fail, call[p].banner)]
    /\ call' = [call EXCEPT ![p].log =
                   IF "query" \in call[p].fail THEN "Cookie handling skipped" ELSE @]
    /\ UNCHANGED <<categories, products, collections, calls>>

\* await page.isVisible(selector).catch(() => false)
isVisible(failed, visible) == ~failed /\ visible

\* if (await page.isVisible(rejectBtnSelector).catch(() => false))
RejectVisible(p) ==
    /\ pc[p] = "rejectVisible"
    /\ pc' = [pc EXCEPT ![p] =
                 IF isVisible("rejectVisible" \in call[p].fail, call[p].reject)
                 THEN "clickReject" ELSE "acceptVisible"]
    /\ UNCHANGED <<categories, products, collections, call, calls>>

\* await page.click(rejectBtnSelector).catch(() => null)
ClickReject(p) ==
    /\ pc[p] = "clickReject"
    /\ call' = [call EXCEPT ![p].clicked =
                   IF "clickReject" \in call[p].fail THEN @ ELSE "reject"]
    /\ pc' = [pc EXCEPT ![p] = "wait"]
    /\ UNCHANGED <<categories, products, collections, calls>>

\* else if (await page.isVisible(acceptBtnSelector).catch(() => false))
AcceptVisible(p) ==
    /\ pc[p] = "acceptVisible"
    /\ pc' = [pc EXCEPT ![p] =
                 IF isVisible("acceptVisible" \in call[p].fail, call[p].accept)
                 THEN "clickAccept" ELSE "wait"]
    /\ UNCHANGED <<categories, products, collections, call, calls>>

\* await page.click(acceptBtnSelector).catch(() => null)
ClickAccept(p) ==
    /\ pc[p] = "clickAccept"
    /\ call' = [call EXCEPT ![p].clicked =
                   IF "clickAccept" \in call[p].fail THEN @ ELSE "accept"]
    /\ pc' = [pc EXCEPT ![p] = "wait"]
    /\ UNCHANGED <<categories, products, collections, calls>>

\* try { await page.waitForSelector(banner, {state: 'hidden'}) } catch { warn }
WaitHidden(p) ==
    /\ pc[p] = "wait"
    /\ call' = [call EXCEPT ![p].log =
                   IF "wait" \in call[p].fail THEN "Cookie Banner did not disappear quickly"
                   ELSE "Cookie Banner closed."]
    /\ pc' = [pc EXCEPT ![p] = "returned"]
    /\ UNCHANGED <<categories, products, collections, calls>>

CookieNext ==
    \/ \E p \in Procs : PageQuery(p)
    \/ \E p \in Procs : RejectVisible(p)
    \/ \E p \in Procs : ClickReject(p)
    \/ \E p \in Procs : AcceptVisible(p)
    \/ \E p \in Procs : ClickAccept(p)
    \/ \E p \in Procs : WaitHidden(p)

CookieSpec == CookieInit /\ [][CookieNext]_vars

\* C20: cookie-consent dismissal never raises: whatever the banner and the
\* controls are and whichever page query, click or wait fails, the routine
\* is at one of its steps or has returned normally, and it can always go on
\* until it has returned.
C20_CookieConsentNeverRaises ==
    /\ pc[1] \in CookieSteps \cup {"returned"}
    /\ pc[1] # "returned" => ENABLED CookieNext

\* The routine returned after the click on the visible reject control failed
\* and the wait for the banner to hide timed out.
C20_Witness ==
    /\ pc[1] = "returned"
    /\ call[1].banner /\ call[1].reject
    /\ call[1].clicked = ""
    /\ call[1].log = "Cookie Banner did not disappear quickly"
    /\ {"clickReject", "wait"} \subseteq call[1].fail
    /\ "rejectVisible" \notin call[1].fail

(***************************************************************************)
(* deepSearchScraper: the extraction run inside a product page, then the   *)
(* normalisation of its result.  Text is a sequence of tokens; " ", "\t"   *)
(* and "\r" are the whitespace tokens, ":" the colon.                      *)
(***************************************************************************)
\* norm: drop "\r", turn "\t" into " ", collapse runs of whitespace, trim.
RECURSIVE Collapse(_)
Collapse(s) ==
    IF s = <<>> THEN <<>>
    ELSE IF Head(s) = "\r" THEN Collapse(Tail(s))
    ELSE LET c == IF Head(s) = "\t" THEN " " ELSE Head(s)
             rest == Collapse(Tail(s))
         IN  IF c = " " /\ rest # <<>> /\ Head(rest) = " " THEN rest ELSE <<c>> \o rest

norm(s) == Trim(Collapse(s))

\* key.replace(':', ''): the first colon is removed.
RECURSIVE StripColon(_)
StripColon(key) ==
    IF key = <<>> THEN <<>>
    ELSE IF Head(key) = ":" THEN Tail(key)
    ELSE <<Head(key)>> \o StripColon(Tail(key))

\* replace(/\D/g, ''): the digits of a text.
RECURSIVE OnlyDigits(_)
OnlyDigits(s) ==
    IF s = <<>> THEN <<>>
    ELSE (IF IsDigit(Head(s)) THEN <<Head(s)>> ELSE <<>>) \o OnlyDigits(Tail(s))

\* specifications[k] = v
Assign(specs, k, v) ==
    [x \in DOMAIN specs \cup {k} |-> IF x = k THEN v ELSE specs[x]]

NoSpecs == [x \in {} |-> <<>>]

\* rows.forEach / dts.forEach: a pair with a key and a value is assigned,
\* whatever the map already holds.
RECURSIVE assignPairs(_, _)
assignPairs(specs, pairs) ==
    IF pairs = <<>> THEN specs
    ELSE LET key == norm(Head(pairs).key)
             val == norm(Head(pairs).val)
         IN  assignPairs(IF key # <<>> /\ val # <<>>
                             THEN Assign(specs, StripColon(key), val)
                             ELSE specs,
                         Tail(pairs))

K(name) == <<name>>

\* The regex and selector heuristics, in the order of the code.  A field of
\* h is <<>> when its regex or selector found nothing, else <<text>>.
heuristics(specs, h) ==
    LET s1 == IF h.skuMatch # <<>> THEN Assign(specs, K("SKU"), Trim(h.skuMatch[1])) ELSE specs
        s2 == IF h.isbn13Match # <<>>
                  THEN Assign(s1, K("ISBN 13"), OnlyDigits(h.isbn13Match[1])) ELSE s1
        s3 == IF h.isbn10Match # <<>> /\ Len(OnlyDigits(h.isbn10Match[1])) = 10
                  THEN Assign(s2, K("ISBN 10"), OnlyDigits(h.isbn10Match[1])) ELSE s2
        s4 == IF h.titleSel # <<>> THEN Assign(s3, K("Title"), norm(h.titleSel[1])) ELSE s3
        s5 == IF h.authorSel # <<>> THEN Assign(s4, K("Author"), norm(h.authorSel[1])) ELSE s4
        s6 == IF h.yearMatch # <<>> THEN Assign(s5, K("Year published"), h.yearMatch[1]) ELSE s5
        s7 == IF h.pagesMatch # <<>> THEN Assign(s6, K("Number of pages"), h.pagesMatch[1]) ELSE s6
        s8 == IF h.bindingMatch # <<>> THEN Assign(s7, K("Binding Type"), h.bindingMatch[1]) ELSE s7
        s9 == IF h.coverNoteMatch # <<>>
                  THEN Assign(s8, K("Cover note"), norm(h.coverNoteMatch[1])) ELSE s8
    IN  IF h.noteMatch # <<>> THEN Assign(s9, K("Note"), norm(h.noteMatch[1])) ELSE s9

\* The accordions: the longest summary panel; the review panels' lines of
\* more than 20 characters, or the whole panel when none is and it has more
\* than 30.  A line carries its text and its length in characters.
RECURSIVE accordionSummary(_, _)
accordionSummary(accordions, summary) ==
    IF accordions = <<>> THEN summary
    ELSE LET acc == Head(accordions)
             panelText == norm(acc.panel)
         IN  accordionSummary(Tail(accordions),
                 IF acc.heading = "summary" /\ panelText # <<>>
                    /\ (summary = <<>> \/ Len(panelText) > Len(summary))
                     THEN panelText ELSE summary)

extractedSummary(page) ==
    LET summary == accordionSummary(page.accordions, <<>>)
    IN  IF summary = <<>> /\ page.fallback # <<>> THEN norm(page.fallback[1]) ELSE summary

RECURSIVE LongLines(_)
LongLines(lines) ==
    IF lines = <<>> THEN <<>>
    ELSE (IF Head(lines).length > 20 THEN <<Head(lines).text>> ELSE <<>>)
         \o LongLines(Tail(lines))

RECURSIVE extractedReviews(_)
extractedReviews(accordions) ==
    IF accordions = <<>> THEN <<>>
    ELSE LET acc == Head(accordions)
             parts == LongLines(acc.lines)
         IN  (IF acc.heading # "review" \/ norm(acc.panel) = <<>> THEN <<>>
              ELSE IF parts # <<>> THEN parts
              ELSE IF acc.panelLength > 30 THEN <<norm(acc.panel)>>
              ELSE <<>>)
             \o extractedReviews(Tail(accordions))

RECURSIVE extractedRecommendations(_)
extractedRecommendations(recs) ==
    IF recs = <<>> THEN <<>>
    ELSE LET card == Head(recs)
         IN  (IF norm(card.title) # <<>> /\ norm(card.price) # <<>>
                  THEN <<[title |-> norm(card.title), price |-> norm(card.price),
                          image |-> card.image]>>
                  ELSE <<>>)
             \o extractedRecommendations(Tail(recs))

\* The three sources of the specifications, one after the other.
extractedSpecifications(page) ==
    heuristics(assignPairs(assignPairs(NoSpecs, page.rows), page.dls), page.heuristics)

\* page.evaluate
evaluate(page) ==
    [summary         |-> extractedSummary(page),
     reviews         |-> extractedReviews(page.accordions),
     specifications  |-> extractedSpecifications(page),
     condition       |-> IF page.condEl = <<>> THEN <<>> ELSE norm(page.condEl[1]),
     recommendations |-> extractedRecommendations(page.recs)]

\* (variant: Publisher is not among the requested keys)
requestedKeysNoPublisher ==
    <<K("SKU"), K("ISBN 13"), K("ISBN 10"), K("Title"), K("Author"), K("Condition"),
      K("Binding Type"), K("Year published"), K("Number of pages"),
      K("Cover note"), K("Note")>>

requestedKeys ==
    <<K("SKU"), K("ISBN 13"), K("ISBN 10"), K("Title"), K("Author"), K("Condition"),
      K("Binding Type"), K("Publisher"), K("Year published"), K("Number of pages"),
      K("Cover note"), K("Note")>>

\* for (const k of requestedKeys) if (!(k in specs)) specs[k] = ''
RECURSIVE ensureKeys(_, _)
ensureKeys(specs, keys) ==
    IF keys = <<>> THEN specs
    ELSE ensureKeys(IF Head(keys) \in DOMAIN specs THEN specs
                    ELSE Assign(specs, Head(keys), <<>>),
                    Tail(keys))

PreOwned == <<"Pre", "-", "owned">>

\* (variant: no default when neither source has a condition)
productConditionNoDefault(extracted, specs) ==
    IF extracted.condition # <<>> THEN extracted.condition ELSE specs[K("Condition")]

\* extracted.condition || specs['Condition'] || 'Pre-owned'
productCondition(extracted, specs) ==
    LET condition == IF extracted.condition # <<>> THEN extracted.condition
                     ELSE specs[K("Condition")]
    IN  IF condition # <<>> THEN condition ELSE PreOwned

\* The ProductDetails built from the extraction.
productDetails(extracted) ==
    LET specs == ensureKeys(extracted.specifications, requestedKeys)
    IN  [summary         |-> extracted.summary,
         condition       |-> productCondition(extracted, specs),
         specifications  |-> specs,
         recommendations |-> extracted.recommendations,
         reviews         |-> [i \in 1..Len(extracted.reviews) |-> [text |-> extracted.reviews[i]]]]

(***************************************************************************)
(* Product pages given to deepSearchScraper.                               *)
(***************************************************************************)
Pair(key, val) == [key |-> key, val |-> val]

Isbn13Dashed == <<"9", "7", "8", "-", "0", "4", "4", "1", "0", "1", "3", "5", "9", "3">>
Isbn10Plain  == <<"0", "4", "4", "1", "0", "1", "3", "5", "9", "7">>

RowPool ==
    {Pair(<<"Condition", ":">>, <<"Used", " ", "-", " ", "Good">>),
     Pair(<<"Binding Type">>, <<"Paperback", " ", "book">>),
     Pair(<<"ISBN 13">>, Isbn13Dashed),
     Pair(<<"Publisher", ":">>, <<" ">>)}

DlPool ==
    {Pair(<<"Binding Type">>, <<"Hardback">>),
     Pair(<<"Condition">>, <<"Very", " ", "Good">>),
     Pair(<<"Weight", ":">>, <<"1kg">>)}

MaxRows == 2
MaxDts  == 1

SeqsUpTo(S, n) == UNION {[1..k -> S] : k \in 0..n}

NoMatches ==
    [skuMatch |-> <<>>, isbn13Match |-> <<>>, isbn10Match |-> <<>>, titleSel |-> <<>>,
     authorSel |-> <<>>, yearMatch |-> <<>>, pagesMatch |-> <<>>, bindingMatch |-> <<>>,
     coverNoteMatch |-> <<>>, noteMatch |-> <<>>]

HeuristicPool ==
    {NoMatches,
     [NoMatches EXCEPT !.bindingMatch = <<<<"Paperback">>>>],
     [NoMatches EXCEPT !.isbn13Match = <<Isbn13Dashed>>,
                       !.isbn10Match = <<SubSeq(Isbn13Dashed, 1, 13)>>],
     [NoMatches EXCEPT !.isbn10Match = <<Isbn10Plain>>],
     [NoMatches EXCEPT !.titleSel = <<<<" ">>>>, !.authorSel = <<<<"Frank", " ", " ", "Herbert">>>>],
     [skuMatch |-> <<<<"BK1", " ">>>>, isbn13Match |-> <<Isbn13Dashed>>,
      isbn10Match |-> <<SubSeq(Isbn13Dashed, 1, 13)>>, titleSel |-> <<<<"Dune">>>>,
      authorSel |-> <<<<"Frank", " ", "Herbert">>>>, yearMatch |-> <<<<"1965">>>>,
      pagesMatch |-> <<<<"412">>>>, bindingMatch |-> <<<<"Paperback">>>>,
      coverNoteMatch |-> <<<<"Worn", "\t", "spine">>>>, noteMatch |-> <<<<"Worn", " ", "spine">>>>]}

\* An accordion: the word of its heading that selects it ("summary",
\* "review" or neither), its panel's text and length, and the panel's lines.
Accordion(heading, panel, panelLength, lines) ==
    [heading |-> heading, panel |-> panel, panelLength |-> panelLength, lines |-> lines]

Line(text, length) == [text |-> text, length |-> length]

ContentPool ==
    {[accordions |-> <<>>, fallback |-> <<>>, recs |-> <<>>],
     [accordions |-> <<>>, fallback |-> <<<<"A", " ", " ", "classic.">>>>, recs |-> <<>>],
     [accordions |-> <<Accordion("summary", <<"Short.">>, 6, <<Line(<<"Short.">>, 6)>>),
                       Accordion("summary", <<"A", " ", "classic.">>, 10,
                                 <<Line(<<"A", " ", "classic.">>, 10)>>),
                       Accordion("review", <<"Gripping", " ", "throughout.", " ", "Ok.">>, 40,
                                 <<Line(<<"Gripping", " ", "throughout.">>, 36),
                                   Line(<<"Ok.">>, 3)>>)>>,
      fallback |-> <<<<"Ignored.">>>>,
      recs |-> <<[title |-> <<"Emma">>, price |-> <<"GBP", "2">>, image |-> "emma.jpg"],
                 [title |-> <<"Persuasion">>, price |-> <<" ">>, image |-> ""]>>],
     [accordions |-> <<Accordion("review", <<"A", " ", "fine", " ", "read", " ", "indeed.">>, 31,
                                 <<Line(<<"A", " ", "fine", " ", "read", " ", "indeed.">>, 19)>>),
                       Accordion("", <<"Delivery">>, 8, <<>>)>>,
      fallback |-> <<>>, recs |-> <<>>]}

CondPool == {<<>>, <<<<" ">>>>, <<<<"Good">>>>}

ProductPages ==
    {[rows |-> rows, dls |-> dls, heuristics |-> h, condEl |-> condEl,
      accordions |-> c.accordions, fallback |-> c.fallback, recs |-> c.recs,
      evaluateFails |-> fails] :
        rows \in SeqsUpTo(RowPool, MaxRows), dls \in SeqsUpTo(DlPool, MaxDts),
        h \in HeuristicPool, condEl \in CondPool, c \in ContentPool,
        fails \in BOOLEAN}

DeepInit ==
    /\ categories = <<>>
    /\ products = <<>>
    /\ collections = <<>>
    /\ calls = 1
    /\ pc = [p \in Procs |-> IF p = 1 THEN "evaluate" ELSE "idle"]
    /\ \E page \in ProductPages :
           call = [p \in Procs |->
                      IF p = 1 THEN [page |-> page, extracted |-> <<>>, details |-> <<>>]
                      ELSE NoCall]

\* await page.evaluate(...): a throw is caught and null returned.
PageEvaluate(p) ==
    /\ pc[p] = "evaluate"
    /\ IF call[p].page.evaluateFails
           THEN /\ pc' = [pc EXCEPT ![p] = "returned"]
                /\ UNCHANGED call
           ELSE /\ pc' = [pc EXCEPT ![p] = "normalize"]
                /\ call' = [call EXCEPT ![p].extracted = <<evaluate(call[p].page)>>]
    /\ UNCHANGED <<categories, products, collections, calls>>

\* The normalisation, and the return of the ProductDetails.
Normalize(p) ==
    /\ pc[p] = "normalize"
    /\ call' = [call EXCEPT ![p].details = <<productDetails(call[p].extracted[1])>>]
    /\ pc' = [pc EXCEPT ![p] = "returned"]
    /\ UNCHANGED <<categories, products, collections, calls>>

DeepNext == \E p \in Procs : PageEvaluate(p) \/ Normalize(p)

DeepSpec == DeepInit /\ [][DeepNext]_vars

Returned(p) == pc[p] = "returned" /\ "details" \in DOMAIN call[p] /\ call[p].details # <<>>

\* C21: whenever deep extraction returns a ProductDetails, its specifications
\* map holds all twelve required keys, each mapped to a (possibly empty)
\* text, whatever the page yielded.
C21_TwelveKeysPresent ==
    \A p \in Procs :
        Returned(p) =>
            LET specs == call[p].details[1].specifications
            IN  \A k \in {K("SKU"), K("ISBN 13"), K("ISBN 10"), K("Title"), K("Author"),
                         K("Condition"), K("Binding Type"), K("Publisher"),
                         K("Year published"), K("Number of pages"), K("Cover note"),
                         K("Note")} :
                    k \in DOMAIN specs /\ Len(specs[k]) >= 0

\* A page with no specification at all was extracted: every required key is
\* there and empty.
C21_Witness ==
    /\ Returned(1)
    /\ call[1].page.rows = <<>> /\ call[1].page.dls = <<>>
    /\ call[1].page.heuristics = NoMatches
    /\ \A i \in 1..Len(requestedKeys) :
           call[1].details[1].specifications[requestedKeys[i]] = <<>>

\* What each source yields on its own, and the merge in which an earlier
\* source's value is kept.
FromRows(page)       == assignPairs(NoSpecs, page.rows)
FromDls(page)        == assignPairs(NoSpecs, page.dls)
FromHeuristics(page) == heuristics(NoSpecs, page.heuristics)

EarlierKept(page) ==
    [k \in DOMAIN FromRows(page) \cup DOMAIN FromDls(page) \cup DOMAIN FromHeuristics(page) |->
        IF k \in DOMAIN FromRows(page) THEN FromRows(page)[k]
        ELSE IF k \in DOMAIN FromDls(page) THEN FromDls(page)[k]
        ELSE FromHeuristics(page)[k]]

Extracted(p) == "extracted" \in DOMAIN call[p] /\ call[p].extracted # <<>>

\* C22: the specifications are merged from the rows, then the dt/dd pairs,
\* then the page-text heuristics, and a key set by an earlier source keeps
\* the earlier source's value.
C22_EarlierSourceKept ==
    \A p \in Procs :
        Extracted(p) => call[p].extracted[1].specifications = EarlierKept(call[p].page)

\* On pages whose sources set different keys the merge is the union.
C22_DisjointSourcesMerged ==
    \A p \in Procs :
        Extracted(p)
        /\ DOMAIN FromRows(call[p].page) \cap DOMAIN FromDls(call[p].page) = {}
        /\ DOMAIN FromRows(call[p].page) \cap DOMAIN FromHeuristics(call[p].page) = {}
        /\ DOMAIN FromDls(call[p].page) \cap DOMAIN FromHeuristics(call[p].page) = {}
            => call[p].extracted[1].specifications = EarlierKept(call[p].page)

SelectorText(page) == IF page.condEl = <<>> THEN <<>> ELSE norm(page.condEl[1])

\* C28: the condition of a returned ProductDetails is the dedicated
\* selector's text when that is not empty, else the Condition value of the
\* specifications when that is not empty, else "Pre-owned"; it is never
\* empty.
C28_ConditionPrecedence ==
    \A p \in Procs :
        Returned(p) =>
            LET details == call[p].details[1]
                selector == SelectorText(call[p].page)
            IN  /\ details.condition # <<>>
                /\ selector # <<>> => details.condition = selector
                /\ selector = <<>> /\ details.specifications[K("Condition")] # <<>>
                       => details.condition = details.specifications[K("Condition")]
                /\ selector = <<>> /\ details.specifications[K("Condition")] = <<>>
                       => details.condition = <<"Pre", "-", "owned">>

\* A page whose condition element holds only whitespace and whose
\* specifications have no Condition: the default is returned.
C28_Witness ==
    /\ Returned(1)
    /\ call[1].page.condEl = <<<<" ">>>>
    /\ call[1].details[1].specifications[K("Condition")] = <<>>
    /\ call[1].details[1].condition = PreOwned

\* C30: searchAndScrape never changes the number of products stored under
\* any category, so the page fetchCategory requests next for a category and
\* whether it takes the cache-hit path are the same after a search as before.
C30_SearchKeepsProductCounts ==
    [][\A c \in 1..Len(categories) :
           LET before == CountProducts(products, c)
               after  == CountProducts(products', c)
           IN  /\ after = before
               /\ targetUrl(categories[c].url, after) = targetUrl(categories[c].url, before)
               /\ \A loadMore \in BOOLEAN :
                      IsCacheHit(loadMore, after) = IsCacheHit(loadMore, before)]_vars

\* A search that updates the product it found leaves every count as it was.
C30_UpdateKeepsProductCounts ==
    [][\A p \in Procs :
           Upsert(p) /\ call[p].existingProduct # 0 =>
               \A c \in 1..Len(categories) :
                   CountProducts(products', c) = CountProducts(products, c)]_vars

(***************************************************************************)
(* The two validating endpoints side by side: GET /search and              *)
(* POST /history, requests numbered in arrival order.                      *)
(***************************************************************************)
BoundaryInit ==
    /\ categories = ShelfRows({1}, 1)
    /\ products = SearchRows(<<"bare", "summarised", "absent">>, 1, 1)
    /\ collections = <<>>
    /\ pc = [p \in Procs |-> "idle"]
    /\ call = [p \in Procs |-> NoSearch]
    /\ calls = 0

BoundaryNext ==
    \/ SearchNext
    \/ \E p \in Procs : SearchAlone(p) /\ GetHistory(p)
    \/ \E p \in Procs : SearchAlone(p) /\ HistoryFindMany(p)

BoundarySpec == BoundaryInit /\ [][BoundaryNext]_vars

\* Request p has arrived without its required input: GET /search with no
\* (or an empty) q, POST /history with no ids array.
MissingInput(p) ==
    /\ pc[p] # "idle"
    /\ \/ "query" \in DOMAIN call[p] /\ call[p].query = <<>>
       \/ "hasIds" \in DOMAIN call[p] /\ ~call[p].hasIds

\* Nothing of searchAndScrapeProduct or getProductsByIds has run for p.
NoCoreOperation(p) ==
    /\ call[p].result = <<>>
    /\ "query" \in DOMAIN call[p] =>
           call[p].existingProduct = 0 /\ call[p].details = <<>>
           /\ call[p].navigations = 0 /\ call[p].writes = 0
    /\ "hasIds" \in DOMAIN call[p] => call[p].numericIds = <<>>

\* C23: a request that lacks its required input (GET /search without q,
\* POST /history without an ids array) is answered with a client error
\* before searchAndScrape or getProductsByIds is invoked, and no step of it
\* touches the store.
C23_RejectedAtBoundary ==
    [][\A p \in Procs :
           MissingInput(p)' =>
               /\ pc'[p] \in {"error", "returned"}
               /\ NoCoreOperation(p)'
               /\ pc'[p] # pc[p] => UNCHANGED <<categories, products, collections>>]_vars

\* Both kinds of request were rejected, one after the other, with products in
\* the store.
C23_Witness ==
    /\ products # <<>>
    /\ pc[1] = "returned" /\ MissingInput(1) /\ "query" \in DOMAIN call[1]
    /\ pc[2] = "error" /\ MissingInput(2) /\ "hasIds" \in DOMAIN call[2]

(***************************************************************************)
(* The slug resolution at the head of getProductsByCategory, and the       *)
(* lookup its result is used for.                                          *)
(***************************************************************************)
ResolveSlugs == Slugs \cup InheritedKeys

NoResolve == [slug |-> <<>>, searchString |-> <<>>, category |-> 0]

ResolveInit ==
    /\ categories \in Stores
    /\ products = <<>>
    /\ collections = <<>>
    /\ pc = [p \in Procs |-> "idle"]
    /\ call = [p \in Procs |-> NoResolve]
    /\ calls = 0

\* const searchString = this.SLUG_MAPPING[slug] || slug;
Resolve(p) ==
    /\ pc[p] = "idle"
    /\ \A q \in Procs : q < p => pc[q] # "idle"
    /\ calls < MaxCalls
    /\ \E slug \in ResolveSlugs :
          call' = [call EXCEPT ![p] = [NoResolve EXCEPT !.slug = slug,
                                                        !.searchString = SLUG_MAPPING(slug)]]
    /\ pc' = [pc EXCEPT ![p] = "resolved"]
    /\ calls' = calls + 1
    /\ UNCHANGED <<categories, products, collections>>

\* category.findFirst({where: {url: {contains: searchString}}}): a
\* searchString that is not a string is refused by the query validation.
ResolvedFindFirst(p) ==
    /\ pc[p] = "resolved"
    /\ IF call[p].slug \in InheritedKeys
       THEN /\ pc' = [pc EXCEPT ![p] = "error"]
            /\ UNCHANGED call
       ELSE /\ pc' = [pc EXCEPT ![p] = "returned"]
            /\ \/ /\ findFirst(categories, call[p].slug) = {}
                  /\ UNCHANGED call
               \/ \E id \in findFirst(categories, call[p].slug) :
                      call' = [call EXCEPT ![p].category = id]
    /\ UNCHANGED <<categories, products, collections, calls>>

ResolveNext ==
    \/ \E p \in Procs : SearchAlone(p) /\ Resolve(p)
    \/ \E p \in Procs : SearchAlone(p) /\ ResolvedFindFirst(p)

ResolveSpec == ResolveInit /\ [][ResolveNext]_vars

\* The entries of the static table for the modelled slugs.
MappedFragment(slug) ==
    IF slug = Dash(<<"fiction", "books">>)
        THEN <<<<"collections", "/">> \o Dash(<<"fiction", "books">>)>>
    ELSE IF slug = Dash(<<"non", "fiction">>)
        THEN <<<<"collections", "/">> \o Dash(<<"non", "fiction", "books">>)>>
    ELSE IF slug = <<"romance">>
        THEN <<<<"collections", "/">> \o Dash(<<"romance", "books">>)>>
    ELSE <<>>

\* C24: resolve returns the mapped fragment for a slug of the static table
\* and the slug itself, unchanged, for any other slug; two calls with the
\* same slug return the same fragment.
C24_ResolveMappedOrUnchanged ==
    \A p \in Procs :
        pc[p] # "idle" =>
            /\ call[p].searchString =
                   IF MappedFragment(call[p].slug) # <<>> THEN MappedFragment(call[p].slug)[1]
                   ELSE call[p].slug
            /\ \A q \in Procs :
                   pc[q] # "idle" /\ call[q].slug = call[p].slug
                       => call[q].searchString = call[p].searchString

\* For slugs that name no inherited member of the table object the claim
\* holds.
C24_OwnKeysResolved ==
    \A p \in Procs :
        pc[p] # "idle" /\ call[p].slug \notin InheritedKeys =>
            /\ call[p].searchString =
                   IF MappedFragment(call[p].slug) # <<>> THEN MappedFragment(call[p].slug)[1]
                   ELSE call[p].slug
            /\ pc[p] # "error"

\* C25: when the page scrape of getProductsByCategory yields no card (an
\* empty page, a selector wait that timed out, a navigation that failed) the
\* call raises no error, inserts no product, leaves lastPage unchanged and
\* returns the products already stored for the category.
C25_EmptyScrapeIsHarmless ==
    [][\A p \in Procs :
           /\ pc[p] = "scrape" /\ pc'[p] # "scrape" /\ call'[p].scrapedProducts = <<>>
                  => pc'[p] = "findMany" /\ UNCHANGED <<products, categories>>
           /\ pc[p] = "findMany" /\ pc'[p] # "findMany" /\ call[p].scrapedProducts = <<>>
                  => /\ pc'[p] = "done"
                     /\ UNCHANGED <<products, categories>>
                     /\ call'[p].result =
                            SelectSeq(products, LAMBDA r : r.categoryId = call[p].category)]_vars

\* A load-more request for a category with stored products scraped an empty
\* page and answers with the stored products.
C25_Witness ==
    \E p \in Procs :
        /\ pc[p] = "done"
        /\ call[p].loadMore /\ call[p].fetches = 1 /\ call[p].scrapedProducts = <<>>
        /\ call[p].currentCount > 0
        /\ Len(call[p].result) = call[p].currentCount

(***************************************************************************)
(* scrapeCategoryPages on its own: one listing page, whatever cards it     *)
(* shows.                                                                  *)
(***************************************************************************)
CardPool ==
    {Card(FALSE, Dune, <<"GBP", "1">>, "Herbert"),
     Card(FALSE, <<" ">> \o DuneLower, <<"GBP", " ", "1", " ">>, ""),
     Card(TRUE, Emma, <<"GBP", "3">>, "Austen"),
     Card(FALSE, <<" ">>, <<"GBP", "2">>, ""),
     Card(FALSE, Emma, <<>>, ""),
     Card(FALSE, Emma, <<"GBP", "2">>, "")}

MaxCards == 3

ListingPages == UNION {[1..n -> CardPool] : n \in 0..MaxCards}

PageInit ==
    /\ categories = <<>>
    /\ products = <<>>
    /\ collections = <<>>
    /\ calls = 1
    /\ pc = [p \in Procs |-> IF p = 1 THEN "scrape" ELSE "idle"]
    /\ \E cards \in ListingPages :
           call = [p \in Procs |->
                      IF p = 1 THEN [urls |-> <<CollectionUrl(<<"fiction", "books">>)>>,
                                     shown |-> <<cards>>, scrapedProducts |-> <<>>]
                      ELSE NoCall]

\* await crawler.run(urls); return products;
ScrapeCategoryPages(p) ==
    /\ pc[p] = "scrape"
    /\ call' = [call EXCEPT ![p].scrapedProducts =
                    scrapeCategoryPages(call[p].urls, call[p].shown)]
    /\ pc' = [pc EXCEPT ![p] = "scraped"]
    /\ UNCHANGED <<categories, products, collections, calls>>

PageNext == \E p \in Procs : ScrapeCategoryPages(p)

PageSpec == PageInit /\ [][PageNext]_vars

\* The key of a card element, and the cards of a page that are visible and
\* have a title and a price.
ElementKey(el) == <<ToLowerCase(Trim(el.title)), StripWhitespace(el.price)>>

Eligible(cards) ==
    {i \in 1..Len(cards) :
        ~cards[i].hidden /\ Trim(cards[i].title) # <<>> /\ Trim(cards[i].price) # <<>>}

\* The first eligible card of each key.
FirstOfKey(cards) ==
    {i \in Eligible(cards) :
        \A j \in Eligible(cards) : j < i => ElementKey(cards[j]) # ElementKey(cards[i])}

\* C26: the cards one page scrape returns contain no two cards with the same
\* (lowercased title, whitespace-stripped price) key, are for each key the
\* first card of the page in document order, and each have a non-empty
\* title and a non-empty price.
C26_PageCardsUniqueFirstWins ==
    \A p \in Procs :
        pc[p] = "scraped" =>
            LET got == call[p].scrapedProducts
                cards == call[p].shown[1]
            IN  /\ \A i, j \in 1..Len(got) :
                       i # j => <<ToLowerCase(got[i].title), StripWhitespace(got[i].price)>>
                                # <<ToLowerCase(got[j].title), StripWhitespace(got[j].price)>>
                /\ \A i \in 1..Len(got) : got[i].title # <<>> /\ got[i].price # <<>>
                /\ Len(got) = Cardinality(FirstOfKey(cards))
                /\ \A i \in 1..Len(got) :
                       \E k \in FirstOfKey(cards) :
                           /\ Cardinality({j \in FirstOfKey(cards) : j <= k}) = i
                           /\ got[i].title = Trim(cards[k].title)
                           /\ got[i].price = Trim(cards[k].price)
                           /\ got[i].author =
                                  IF cards[k].author = "" THEN "Unknown" ELSE cards[k].author

\* A page showing the same book twice (the second time in another case and
\* spacing) around a card without a price: only the first is returned.
C26_Witness ==
    /\ pc[1] = "scraped"
    /\ call[1].shown[1] = << Card(FALSE, Dune, <<"GBP", "1">>, "Herbert"),
                            Card(FALSE, Emma, <<>>, ""),
                            Card(FALSE, <<" ">> \o DuneLower, <<"GBP", " ", "1", " ">>, "") >>
    /\ call[1].scrapedProducts = << [title |-> Dune, price |-> <<"GBP", "1">>,
                                     author |-> "Herbert"] >>

\* C27: in the category map built by a sync, a parent that has an anchor
\* without a child name has as its root url the url of such an anchor,
\* whether the parent's child anchors come before or after it in the
\* document; and within one parent no two children have the same url.
C27_ParentAnchorAuthoritative ==
    \A p \in Procs :
        pc[p] = "synced" /\ call[p].navOk =>
            LET links == ExtractLinks(call[p].anchors)
                map   == categoryMap(links)
                ParentLevel(name) ==
                    {k \in 1..Len(links) :
                        links[k].parentName = name /\ links[k].childName = ""}
            IN  \A i \in 1..Len(map) :
                    /\ ParentLevel(map[i].name) # {}
                           => \E k \in ParentLevel(map[i].name) : links[k].url = map[i].url
                    /\ \A a, b \in 1..Len(map[i].children) :
                           a # b => map[i].children[a].url # map[i].children[b].url

\* The Travel menu was synced: a child anchor comes before the parent's own
\* anchor and two children share a url.
C27_Witness ==
    /\ pc[1] = "synced" /\ call[1].navOk
    /\ call[1].anchors = MenuTravel
    /\ \E i \in 1..Len(categories) :
           /\ categories[i].title = "Travel"
           /\ categories[i].url = baseUrl \o <<"/", "en-gb", "/", "collections", "/">>
                                      \o Dash(<<"travel", "books">>)

\* C29: a sync never deletes a category, never changes the lastPage of a
\* stored category and never inserts, deletes or modifies a product; and a
\* second sync over the same anchors leaves the categories as the first
\* left them.
C29_SyncPreservesStore ==
    [][\A p \in Procs :
           pc[p] = "sync" /\ pc'[p] # "sync" =>
               /\ products' = products
               /\ Len(categories') >= Len(categories)
               /\ \A id \in 1..Len(categories) :
                      /\ categories'[id].url = categories[id].url
                      /\ categories'[id].lastPage = categories[id].lastPage
               /\ \A menu \in Menus :
                      categories' = syncCategories(categories, TRUE, menu)
                          => syncCategories(categories', TRUE, menu) = categories']_vars

\* After a page of a category was crawled, a later request ran the sync
\* again over a menu that names that category.
C29_Witness ==
    \E p \in Procs :
        /\ pc[p] = "retry" /\ call[p].syncs = 1
        /\ products # <<>>
        /\ \E id \in 1..Len(categories) :
               /\ categories[id].lastPage > 0
               /\ categories[id].url = CollectionUrl(<<"fiction", "books">>)
        /\ categories = syncCategories(categories, TRUE, MenuFiction)

\* The store holds the category at the canonical fiction-root url.
FictionRoot == CollectionUrl(<<"fiction", "books">>)

HasFictionRoot == \E i \in 1..Len(categories) : categories[i].url = FictionRoot

\* C31: when the store contains the category whose url is the canonical
\* fiction-root url, a request for the slug "fiction-books" reads and appends
\* to that category only, never to another category whose url merely
\* contains "fiction-books".
C31_FictionRootOnly ==
    /\ \A p \in Procs :
           call[p].slug = FictionSlug /\ call[p].category # 0 /\ HasFictionRoot
               => categories[call[p].category].url = FictionRoot
    /\ \A p \in Procs :
           call[p].slug = FictionSlug /\ Appended(p) /\ HasFictionRoot
               => \A i \in (Len(products) - Len(call[p].scrapedProducts) + 1)..Len(products) :
                      categories[products[i].categoryId].url = FictionRoot

\* Whatever row the fiction lookup selects, its url contains "fiction-books".
C31_SelectedUrlContainsFictionBooks ==
    \A p \in Procs :
        call[p].slug = FictionSlug /\ call[p].category # 0
            => Contains(categories[call[p].category].url, Dash(<<"fiction", "books">>))

=============================================================================
